---- MODULE Spec2Model ----
(***************************************************************************)
(* A model of the simulation core of neurAI_Pac: the tile grid, the        *)
(* collectible set, the player motion model, the ghost motion + AI model   *)
(* and the round orchestrator (Game.update).                               *)
(*                                                                         *)
(* Numbers.  The program computes in floating-point pixels and seconds.    *)
(* The model computes in integers: one length unit is 1/20 px and one time *)
(* unit is 1/100 s, so that every product speed * dt the program forms is  *)
(* an integer here (120 px/s = 24 units per time unit, 115 px/s = 23).     *)
(* Px(n) is n pixels and Sec100(n) is n hundredths of a second.            *)
(***************************************************************************)
EXTENDS Integers, Sequences, FiniteSets, TLC

Px(n) == 20 * n
Sec100(n) == n

Max(a, b) == IF a >= b THEN a ELSE b
Min(a, b) == IF a <= b THEN a ELSE b
Abs(a) == IF a >= 0 THEN a ELSE -a
\* Math.floor(a / b) and Math.ceil(a / b) for b > 0
FloorDiv(a, b) == a \div b
CeilDiv(a, b) == -((-a) \div b)
\* Math.round(a / b) for b > 0: halves round up
RoundDiv(a, b) == (2 * a + b) \div (2 * b)

NoDir == "none"
Directions == <<"up", "down", "left", "right">>
DirSet == {"up", "down", "left", "right"}

(***************************************************************************)
(* Tile grid                                                               *)
(***************************************************************************)
TILE == Px(20)

parseTile(char) ==
    CASE char = "#" -> "wall"
      [] char = "." -> "dot"
      [] char = "o" -> "pellet"
      [] char = "-" -> "door"
      [] OTHER -> "floor"

LEVEL_1 == [
  tiles |-> <<
    <<"#","#","#","#","#","#","#","#","#","#","#","#","#","#","#","#","#","#","#","#","#","#","#","#","#","#","#","#">>,  \*  0
    <<"#",".",".",".",".",".",".",".",".",".",".",".",".","#","#",".",".",".",".",".",".",".",".",".",".",".",".","#">>,  \*  1
    <<"#",".","#","#","#","#",".","#","#","#","#","#",".","#","#",".","#","#","#","#","#",".","#","#","#","#",".","#">>,  \*  2
    <<"#","o","#","#","#","#",".","#","#","#","#","#",".","#","#",".","#","#","#","#","#",".","#","#","#","#","o","#">>,  \*  3
    <<"#",".","#","#","#","#",".","#","#","#","#","#",".","#","#",".","#","#","#","#","#",".","#","#","#","#",".","#">>,  \*  4
    <<"#",".",".",".",".",".",".",".",".",".",".",".",".",".",".",".",".",".",".",".",".",".",".",".",".",".",".","#">>,  \*  5
    <<"#",".","#","#","#","#",".","#","#",".","#","#","#","#","#","#","#","#",".","#","#",".","#","#","#","#",".","#">>,  \*  6
    <<"#",".","#","#","#","#",".","#","#",".","#","#","#","#","#","#","#","#",".","#","#",".","#","#","#","#",".","#">>,  \*  7
    <<"#",".",".",".",".",".",".","#","#",".",".",".",".","#","#",".",".",".",".","#","#",".",".",".",".",".",".","#">>,  \*  8
    <<"#","#","#","#","#","#",".","#","#","#","#","#"," ","#","#"," ","#","#","#","#","#",".","#","#","#","#","#","#">>,  \*  9
    <<" "," "," "," "," ","#",".","#","#","#","#","#"," ","#","#"," ","#","#","#","#","#",".","#"," "," "," "," "," ">>,  \* 10
    <<" "," "," "," "," ","#",".","#","#"," "," "," "," "," "," "," "," "," "," ","#","#",".","#"," "," "," "," "," ">>,  \* 11
    <<" "," "," "," "," ","#",".","#","#"," ","#","#","#","-","-","#","#","#"," ","#","#",".","#"," "," "," "," "," ">>,  \* 12
    <<"#","#","#","#","#","#",".","#","#"," ","#"," "," "," "," "," "," ","#"," ","#","#",".","#","#","#","#","#","#">>,  \* 13
    <<" "," "," "," "," "," "," "," "," "," ","#"," "," "," "," "," "," ","#"," "," "," "," "," "," "," "," "," "," ">>,  \* 14
    <<"#","#","#","#","#","#",".","#","#"," ","#"," "," "," "," "," "," ","#"," ","#","#",".","#","#","#","#","#","#">>,  \* 15
    <<" "," "," "," "," ","#",".","#","#"," ","#","#","#","#","#","#","#","#"," ","#","#",".","#"," "," "," "," "," ">>,  \* 16
    <<" "," "," "," "," ","#",".","#","#"," "," "," "," "," "," "," "," "," "," ","#","#",".","#"," "," "," "," "," ">>,  \* 17
    <<" "," "," "," "," ","#",".","#","#"," ","#","#","#","#","#","#","#","#"," ","#","#",".","#"," "," "," "," "," ">>,  \* 18
    <<"#","#","#","#","#","#",".","#","#"," ","#","#","#","#","#","#","#","#"," ","#","#",".","#","#","#","#","#","#">>,  \* 19
    <<"#",".",".",".",".",".",".",".",".",".",".",".",".","#","#",".",".",".",".",".",".",".",".",".",".",".",".","#">>,  \* 20
    <<"#",".","#","#","#","#",".","#","#","#","#","#",".","#","#",".","#","#","#","#","#",".","#","#","#","#",".","#">>,  \* 21
    <<"#","o",".",".","#","#",".",".",".",".",".",".",".",".",".",".",".",".",".",".",".",".","#","#",".",".","o","#">>,  \* 22
    <<"#","#","#",".","#","#",".","#","#"," "," "," "," "," "," "," "," "," "," ","#","#",".","#","#",".","#","#","#">>,  \* 23
    <<"#","#","#",".","#","#",".","#","#",".","#","#","#","#","#","#","#","#",".","#","#",".","#","#",".","#","#","#">>,  \* 24
    <<"#",".",".",".",".",".",".","#","#",".",".",".",".","#","#",".",".",".",".","#","#",".",".",".",".",".",".","#">>,  \* 25
    <<"#",".","#","#","#","#","#","#","#","#","#","#",".","#","#",".","#","#","#","#","#","#","#","#","#","#",".","#">>,  \* 26
    <<"#",".",".",".",".",".",".",".",".",".",".",".",".",".",".",".",".",".",".",".",".",".",".",".",".",".",".","#">>,  \* 27
    <<"#",".","#","#","#","#",".","#","#","#","#","#",".","#","#",".","#","#","#","#","#",".","#","#","#","#",".","#">>,  \* 28
    <<"#",".",".",".",".",".",".",".",".",".",".",".",".","#","#",".",".",".",".",".",".",".",".",".",".",".",".","#">>,  \* 29
    <<"#","#","#","#","#","#","#","#","#","#","#","#","#","#","#","#","#","#","#","#","#","#","#","#","#","#","#","#">>  \* 30
  >>,
  playerStart |-> [col |-> 13, row |-> 23],
  ghostStarts |-> << [col |-> 13, row |-> 14],
                     [col |-> 13, row |-> 13],
                     [col |-> 15, row |-> 14] >>,
  tunnelRow |-> 14 ]

\* Rows and columns are numbered from 0, as in the program.
createMaze(layout) ==
    [ tiles |-> [row \in 0..(Len(layout.tiles) - 1) |->
                   [col \in 0..27 |->
                      parseTile(IF col + 1 <= Len(layout.tiles[row + 1])
                                THEN layout.tiles[row + 1][col + 1]
                                ELSE " ")]],
      cols |-> 28,
      rows |-> Len(layout.tiles),
      tunnelRow |-> layout.tunnelRow ]

Level1Maze == createMaze(LEVEL_1)

\* The lookup as it would be if cells outside the grid read as floor.
getTile_OutsideFloor(maze, col, row) ==
    IF row \notin DOMAIN maze.tiles THEN "floor"
    ELSE IF col \notin DOMAIN maze.tiles[row] THEN "floor"
    ELSE maze.tiles[row][col]

getTile(maze, col, row) ==
    IF row \notin DOMAIN maze.tiles THEN "wall"
    ELSE IF col \notin DOMAIN maze.tiles[row] THEN "wall"
    ELSE maze.tiles[row][col]

\* The player's test as it would be if the door did not block.
isWallAt_DoorOpen(maze, pixelX, pixelY) ==
    getTile(maze, FloorDiv(pixelX, TILE), FloorDiv(pixelY, TILE)) = "wall"

isWallAt(maze, pixelX, pixelY) ==
    LET col == FloorDiv(pixelX, TILE)
        row == FloorDiv(pixelY, TILE)
        tile == getTile(maze, col, row)
    IN  tile = "wall" \/ tile = "door"

\* The dots of the cells picked, in the order given.
DotsAt(maze, picked) ==
    [i \in 1..Len(picked) |->
       [x |-> picked[i].col * TILE + TILE \div 2,
        y |-> picked[i].row * TILE + TILE \div 2,
        isPellet |-> (getTile(maze, picked[i].col, picked[i].row) = "pellet")]]

\* The cells in row-major order, as the nested loops visit them.
createDotsFromMaze(maze) ==
    LET cells == [i \in 1..(maze.rows * maze.cols) |->
                    [col |-> (i - 1) % maze.cols, row |-> (i - 1) \div maze.cols]]
        holdsDot(cell) ==
          LET tile == getTile(maze, cell.col, cell.row)
          IN  tile = "dot" \/ tile = "pellet"
    IN  DotsAt(maze, SelectSeq(cells, holdsDot))

Level1Dots == createDotsFromMaze(Level1Maze)

(***************************************************************************)
(* Collectible set                                                         *)
(***************************************************************************)
\* The pickup as it would be if a dot at exactly eatRadius were kept.
eatDots_KeepsBoundary(dots, playerX, playerY, eatRadius) ==
    LET keep(dot) ==
          LET dx == dot.x - playerX
              dy == dot.y - playerY
          IN  dx * dx + dy * dy >= eatRadius * eatRadius
    IN  SelectSeq(dots, keep)

eatDots(dots, playerX, playerY, eatRadius) ==
    LET keep(dot) ==
          LET dx == dot.x - playerX
              dy == dot.y - playerY
          IN  dx * dx + dy * dy > eatRadius * eatRadius
    IN  SelectSeq(dots, keep)

(***************************************************************************)
(* Blocking predicates.  The program passes updatePlayer a function        *)
(* (px, py) -> boolean; the model passes a value that names the function   *)
(* and Blocks applies it.                                                  *)
(*   "open"   the default parameter () => false                            *)
(*   "wallFn" the closure Game.update builds over the maze, the tunnel row *)
(*            and the canvas width                                         *)
(***************************************************************************)
OpenField == [kind |-> "open"]
wallFn(maze, tunnelRow, width) ==
    [kind |-> "wallFn", maze |-> maze, tunnelRow |-> tunnelRow, width |-> width]

Blocks(w, px, py) ==
    IF w.kind = "open" THEN FALSE
    ELSE LET row == FloorDiv(py, TILE)
         IN  IF row = w.tunnelRow /\ (px < 0 \/ px >= w.width) THEN FALSE
             ELSE isWallAt(w.maze, px, py)

(***************************************************************************)
(* Player motion model                                                     *)
(***************************************************************************)
SPEED == 24
PACMAN_RADIUS == Px(10)
R == PACMAN_RADIUS
\* Math.round(R / Math.SQRT2) pixels: the integer n with n - 1/2 <= 10/sqrt(2) < n + 1/2
D == Px(CHOOSE n \in 0..10 : (2 * n - 1) * (2 * n - 1) <= 200 /\ 200 < (2 * n + 1) * (2 * n + 1))
HALF_TILE == TILE \div 2

nearestTileCenter(pos) == RoundDiv(pos - HALF_TILE, TILE) * TILE + HALF_TILE

createPlayer(startX, startY) ==
    [x |-> startX, y |-> startY, facing |-> "right",
     currentDir |-> NoDir, desiredDir |-> NoDir,
     mouthTimer |-> 0, isMoving |-> FALSE,
     dying |-> FALSE, deathProgress |-> 0]

\* The probe as it would be if nothing ever blocked.
canMoveInDir_AlwaysClear(x, y, dir, dist, w) == TRUE

canMoveInDir(x, y, dir, dist, w) ==
    CASE dir = "right" ->
           LET nx == x + dist
           IN  ~Blocks(w, nx + R, y) /\ ~Blocks(w, nx + D, y - D) /\ ~Blocks(w, nx + D, y + D)
      [] dir = "left" ->
           LET nx == x - dist
           IN  ~Blocks(w, nx - R, y) /\ ~Blocks(w, nx - D, y - D) /\ ~Blocks(w, nx - D, y + D)
      [] dir = "down" ->
           LET ny == y + dist
           IN  ~Blocks(w, x, ny + R) /\ ~Blocks(w, x - D, ny + D) /\ ~Blocks(w, x + D, ny + D)
      [] dir = "up" ->
           LET ny == y - dist
           IN  ~Blocks(w, x, ny - R) /\ ~Blocks(w, x - D, ny - D) /\ ~Blocks(w, x + D, ny - D)

\* The turn test as it would be without the snap to the tile centre.
tryTurn_NoSnap(x, y, currentDir, desiredDir, w) ==
    [allowed |-> canMoveInDir(x, y, desiredDir, Px(1), w), snapX |-> x, snapY |-> y]

tryTurn(x, y, currentDir, desiredDir, w) ==
    LET movingH == currentDir = "left" \/ currentDir = "right"
        wantH == desiredDir = "left" \/ desiredDir = "right"
        perpendicular == currentDir # NoDir /\ movingH # wantH
        snapX == IF perpendicular /\ movingH THEN nearestTileCenter(x) ELSE x
        snapY == IF perpendicular /\ ~movingH THEN nearestTileCenter(y) ELSE y
    IN  [allowed |-> canMoveInDir(snapX, snapY, desiredDir, Px(1), w),
         snapX |-> snapX, snapY |-> snapY]

Advance(x, y, dir, dist) ==
    CASE dir = "right" -> [x |-> x + dist, y |-> y]
      [] dir = "left" -> [x |-> x - dist, y |-> y]
      [] dir = "down" -> [x |-> x, y |-> y + dist]
      [] dir = "up" -> [x |-> x, y |-> y - dist]

\* The turn as it would be if a refused turn were forgotten.
PlayerTurn_DropsQueue(player, desiredDir, turn) ==
    LET granted == desiredDir # NoDir /\ turn.allowed
    IN  [currentDir |-> IF granted THEN desiredDir ELSE player.currentDir,
         desiredDir |-> NoDir,
         x |-> IF granted THEN turn.snapX ELSE player.x,
         y |-> IF granted THEN turn.snapY ELSE player.y]

\* Lines 169-177: the turn, given the result of tryTurn.  The result is the
\* direction state and the position the move starts from.
PlayerTurn(player, desiredDir, turn) ==
    LET granted == desiredDir # NoDir /\ turn.allowed
    IN  [currentDir |-> IF granted THEN desiredDir ELSE player.currentDir,
         desiredDir |-> IF granted THEN NoDir ELSE desiredDir,
         x |-> IF granted THEN turn.snapX ELSE player.x,
         y |-> IF granted THEN turn.snapY ELSE player.y]

\* The move as it would be if a player with nothing pressed and nothing queued
\* stood still.
PlayerMove_StopsOnRelease(t, dist, w) ==
    IF t.currentDir # NoDir /\ t.desiredDir # NoDir
       /\ canMoveInDir(t.x, t.y, t.currentDir, dist, w)
    THEN Advance(t.x, t.y, t.currentDir, dist)
    ELSE [x |-> t.x, y |-> t.y]

\* Lines 179-194: the move along the current direction.
PlayerMove(t, dist, w) ==
    IF t.currentDir # NoDir /\ canMoveInDir(t.x, t.y, t.currentDir, dist, w)
    THEN Advance(t.x, t.y, t.currentDir, dist)
    ELSE [x |-> t.x, y |-> t.y]

\* The result as it would be without the clamp to the bounds.
PlayerClamp_Unclamped(player, t, moved, dt, bounds) ==
    LET isMoving == moved.x # player.x \/ moved.y # player.y
    IN  [x |-> moved.x, y |-> moved.y,
         facing |-> IF t.currentDir # NoDir THEN t.currentDir ELSE player.facing,
         currentDir |-> t.currentDir,
         desiredDir |-> t.desiredDir,
         mouthTimer |-> IF isMoving THEN player.mouthTimer + dt ELSE player.mouthTimer,
         isMoving |-> isMoving,
         dying |-> FALSE, deathProgress |-> 0]

\* The result as it would be if the mouth animation ran while standing.
PlayerClamp_MouthRuns(player, t, moved, dt, bounds) ==
    LET xMin == IF "xMin" \in DOMAIN bounds THEN bounds.xMin ELSE R
        xMax == IF "xMax" \in DOMAIN bounds THEN bounds.xMax ELSE bounds.width - R
        x == Max(xMin, Min(xMax, moved.x))
        y == Max(R, Min(bounds.height - R, moved.y))
        isMoving == x # player.x \/ y # player.y
    IN  [x |-> x, y |-> y,
         facing |-> IF t.currentDir # NoDir THEN t.currentDir ELSE player.facing,
         currentDir |-> t.currentDir,
         desiredDir |-> t.desiredDir,
         mouthTimer |-> player.mouthTimer + dt,
         isMoving |-> isMoving,
         dying |-> FALSE, deathProgress |-> 0]

\* Lines 198-215: the clamp to the bounds and the derived fields.
\* bounds is [width, height] or [width, height, xMin, xMax]
PlayerClamp(player, t, moved, dt, bounds) ==
    LET xMin == IF "xMin" \in DOMAIN bounds THEN bounds.xMin ELSE R
        xMax == IF "xMax" \in DOMAIN bounds THEN bounds.xMax ELSE bounds.width - R
        x == Max(xMin, Min(xMax, moved.x))
        y == Max(R, Min(bounds.height - R, moved.y))
        isMoving == x # player.x \/ y # player.y
    IN  [x |-> x, y |-> y,
         facing |-> IF t.currentDir # NoDir THEN t.currentDir ELSE player.facing,
         currentDir |-> t.currentDir,
         desiredDir |-> t.desiredDir,
         mouthTimer |-> IF isMoving THEN player.mouthTimer + dt ELSE player.mouthTimer,
         isMoving |-> isMoving,
         dying |-> FALSE, deathProgress |-> 0]

PlayerAfterTurn(player, t, dt, bounds, w) ==
    PlayerClamp(player, t, PlayerMove(t, SPEED * dt, w), dt, bounds)

updatePlayer(player, dir, dt, bounds, w) ==
    LET desiredDir == IF dir # NoDir THEN dir ELSE player.desiredDir
    IN  PlayerAfterTurn(player,
                        PlayerTurn(player, desiredDir,
                                   tryTurn(player.x, player.y, player.currentDir,
                                           desiredDir, w)),
                        dt, bounds, w)

(***************************************************************************)
(* Ghost motion + AI model                                                 *)
(***************************************************************************)
GHOST_RADIUS == Px(10)
GHOST_SPEED == 23
FRIGHTENED_DURATION == Sec100(800)

PEN_EXIT_X == 13 * TILE + TILE \div 2
PEN_EXIT_Y == 11 * TILE + TILE \div 2
PEN_ENTRANCE_X == 13 * TILE + TILE \div 2
PEN_ENTRANCE_Y == 12 * TILE + TILE \div 2

SCATTER_TARGETS ==
    [blinky |-> [x |-> 25 * TILE + TILE \div 2, y |-> 1 * TILE + TILE \div 2],
     pinky |-> [x |-> 2 * TILE + TILE \div 2, y |-> 1 * TILE + TILE \div 2],
     clyde |-> [x |-> 1 * TILE + TILE \div 2, y |-> 29 * TILE + TILE \div 2]]

GhostModes == {"pen", "exiting", "scatter", "chase", "frightened", "eaten"}

createGhost(startX, startY, personality, penWait) ==
    [x |-> startX, y |-> startY, dir |-> "up", mode |-> "pen",
     frightenedTimer |-> 0, penTimer |-> penWait, personality |-> personality]

oppositeDir(dir) ==
    CASE dir = "left" -> "right"
      [] dir = "right" -> "left"
      [] dir = "up" -> "down"
      [] dir = "down" -> "up"

snapToCenter(pos) == RoundDiv(pos - TILE \div 2, TILE) * TILE + TILE \div 2

\* The result is << >> for null and <<centre>> for a centre.
findCrossedCenter(from, to) ==
    IF from = to THEN << >>
    ELSE LET min == Min(from, to)
             max == Max(from, to)
             kLow == CeilDiv(min - TILE \div 2, TILE)
             kHigh == FloorDiv(max - TILE \div 2, TILE)
         IN  IF kLow > kHigh THEN << >>
             ELSE << (IF to > from THEN kLow ELSE kHigh) * TILE + TILE \div 2 >>

\* The passability rule as it would be if the door blocked every mode.
ghostIsWallAt_DoorShut(maze, x, y, mode) ==
    getTile(maze, FloorDiv(x, TILE), FloorDiv(y, TILE)) \in {"wall", "door"}

\* The passability rule as it would be if the door blocked no mode.
ghostIsWallAt_DoorOpen(maze, x, y, mode) ==
    getTile(maze, FloorDiv(x, TILE), FloorDiv(y, TILE)) = "wall"

ghostIsWallAt(maze, x, y, mode) ==
    LET col == FloorDiv(x, TILE)
        row == FloorDiv(y, TILE)
        tile == getTile(maze, col, row)
    IN  IF tile = "wall" THEN TRUE
        ELSE IF tile = "door"
             THEN mode # "pen" /\ mode # "exiting" /\ mode # "eaten"
             ELSE FALSE

chaseTarget(ghost, playerX, playerY, playerFacing) ==
    CASE ghost.personality = "blinky" -> [x |-> playerX, y |-> playerY]
      [] ghost.personality = "pinky" ->
           LET ahead == 4 * TILE
           IN  (CASE playerFacing = "right" -> [x |-> playerX + ahead, y |-> playerY]
                  [] playerFacing = "left" -> [x |-> playerX - ahead, y |-> playerY]
                  [] playerFacing = "down" -> [x |-> playerX, y |-> playerY + ahead]
                  [] playerFacing = "up" -> [x |-> playerX, y |-> playerY - ahead])
      [] ghost.personality = "clyde" ->
           LET dx == ghost.x - playerX
               dy == ghost.y - playerY
               distSq == dx * dx + dy * dy
               threshold == 8 * TILE
           IN  IF distSq > threshold * threshold
               THEN [x |-> playerX, y |-> playerY]
               ELSE SCATTER_TARGETS.clyde

\* The centre one tile ahead of (x, y) in direction d.
AheadX(x, d) == x + (IF d = "right" THEN TILE ELSE IF d = "left" THEN -TILE ELSE 0)
AheadY(y, d) == y + (IF d = "down" THEN TILE ELSE IF d = "up" THEN -TILE ELSE 0)

\* The reduce as it would be if a later candidate won a tie.
RECURSIVE ReduceClosest_LastOfTies(_, _, _, _, _, _, _)
ReduceClosest_LastOfTies(valid, i, best, x, y, targetX, targetY) ==
    IF i > Len(valid) THEN best
    ELSE LET d == valid[i]
             nx == AheadX(x, d)
             ny == AheadY(y, d)
             dist == (nx - targetX) * (nx - targetX) + (ny - targetY) * (ny - targetY)
             bx == AheadX(x, best)
             by == AheadY(y, best)
             bestDist == (bx - targetX) * (bx - targetX) + (by - targetY) * (by - targetY)
         IN  CHOOSE result \in
               {ReduceClosest_LastOfTies(valid, i + 1, next, x, y, targetX, targetY) :
                  next \in {IF dist <= bestDist THEN d ELSE best}} : TRUE

\* valid.reduce((best, d) => dist(d) < dist(best) ? d : best): the first of the
\* closest candidates
RECURSIVE ReduceClosest(_, _, _, _, _, _, _)
ReduceClosest(valid, i, best, x, y, targetX, targetY) ==
    IF i > Len(valid) THEN best
    ELSE LET d == valid[i]
             nx == AheadX(x, d)
             ny == AheadY(y, d)
             dist == (nx - targetX) * (nx - targetX) + (ny - targetY) * (ny - targetY)
             bx == AheadX(x, best)
             by == AheadY(y, best)
             bestDist == (bx - targetX) * (bx - targetX) + (by - targetY) * (by - targetY)
         IN  CHOOSE result \in
               {ReduceClosest(valid, i + 1, next, x, y, targetX, targetY) :
                  next \in {IF dist < bestDist THEN d ELSE best}} : TRUE

\* Math.random() is one of the values rnd / 2 for rnd in RandomDraw: the lower
\* and the upper half of [0, 1).
RandomDraw == {0, 1}

\* The filter as it would be if it kept the reverse direction.
ValidDirections_WithReverse(x, y, reverse, mode, maze) ==
    LET open(d) == ~ghostIsWallAt(maze, AheadX(x, d), AheadY(y, d), mode)
    IN  SelectSeq(Directions, open)

\* Lines 203-208: the directions that are not the reverse and not walled.
ValidDirections(x, y, reverse, mode, maze) ==
    LET open(d) == d # reverse /\ ~ghostIsWallAt(maze, AheadX(x, d), AheadY(y, d), mode)
    IN  SelectSeq(Directions, open)

\* Lines 227-230: the random pick among the pool, or among all if it is empty.
PickRandom(valid, pool, rnd) ==
    LET candidates == IF Len(pool) > 0 THEN pool ELSE valid
    IN  candidates[FloorDiv(rnd * Len(candidates), 2) + 1]

\* The frightened pick as it would be if toward stayed in the pool.
PickAwayFrom_Any(valid, toward, rnd) == PickRandom(valid, valid, rnd)

\* Lines 226-230: the pick among the directions other than toward.
PickAwayFrom(valid, toward, rnd) ==
    LET notToward(d) == d # toward
    IN  PickRandom(valid, SelectSeq(valid, notToward), rnd)

\* Lines 210-241: the choice among the valid directions.
PickAmong(valid, reverse, x, y, targetX, targetY, mode, rnd) ==
    IF Len(valid) = 0 THEN reverse
    ELSE IF mode = "frightened"
    THEN PickAwayFrom(valid, ReduceClosest(valid, 2, valid[1], x, y, targetX, targetY), rnd)
    ELSE ReduceClosest(valid, 2, valid[1], x, y, targetX, targetY)

\* Lines 191-242.  The set constructor fixes the filtered array as a value.
pickDirection(x, y, currentDir, targetX, targetY, mode, maze, rnd) ==
    CHOOSE result \in
      {PickAmong(valid, oppositeDir(currentDir), x, y, targetX, targetY, mode, rnd) :
         valid \in {ValidDirections(x, y, oppositeDir(currentDir), mode, maze)}} : TRUE

\* The frightened countdown as it would be if the expiry left the mode alone.
FrightenedTimerStep_StaysFrightened(ghost, dt, isChasing) ==
    IF ghost.frightenedTimer > 0
    THEN [ghost EXCEPT !.frightenedTimer = Max(0, ghost.frightenedTimer - dt)]
    ELSE ghost

\* The frightened countdown as it would be if the expiry ignored the phase.
FrightenedTimerStep_AlwaysChase(ghost, dt, isChasing) ==
    IF ghost.frightenedTimer > 0
    THEN LET t == Max(0, ghost.frightenedTimer - dt)
         IN  [ghost EXCEPT !.frightenedTimer = t,
                           !.mode = IF t = 0 /\ ghost.mode = "frightened"
                                    THEN "chase"
                                    ELSE ghost.mode]
    ELSE ghost

\* Lines 266-272: the frightened countdown.
FrightenedTimerStep(ghost, dt, isChasing) ==
    IF ghost.frightenedTimer > 0
    THEN LET t == Max(0, ghost.frightenedTimer - dt)
         IN  [ghost EXCEPT !.frightenedTimer = t,
                           !.mode = IF t = 0 /\ ghost.mode = "frightened"
                                    THEN (IF isChasing THEN "chase" ELSE "scatter")
                                    ELSE ghost.mode]
    ELSE ghost

\* The pen wait as it would be without the clamp of the timer at 0.
PenWaiting_NoClamp(ghost, dt) ==
    LET t == ghost.penTimer - dt
    IN  [ghost EXCEPT !.penTimer = t, !.mode = IF t <= 0 THEN "exiting" ELSE "pen"]

\* Lines 274-281: waiting in the pen.
PenWaiting(ghost, dt) ==
    LET t == Max(0, ghost.penTimer - dt)
    IN  [ghost EXCEPT !.penTimer = t, !.mode = IF t = 0 THEN "exiting" ELSE "pen"]

\* Lines 283-312: the target of a mode.
TargetOf(ghost, mode, playerX, playerY, playerFacing) ==
    CASE mode = "exiting" -> [x |-> PEN_EXIT_X, y |-> PEN_EXIT_Y]
      [] mode = "scatter" -> SCATTER_TARGETS[ghost.personality]
      [] mode = "chase" -> chaseTarget(ghost, playerX, playerY, playerFacing)
      [] mode = "frightened" -> [x |-> playerX, y |-> playerY]
      [] mode = "eaten" -> [x |-> PEN_ENTRANCE_X, y |-> PEN_ENTRANCE_Y]

\* Lines 352-360: arrival at the pen exit.
ArriveExit(g, isChasing) ==
    IF g.mode = "exiting" /\ Abs(g.x - PEN_EXIT_X) < Px(1) /\ Abs(g.y - PEN_EXIT_Y) < Px(1)
    THEN [g EXCEPT !.x = PEN_EXIT_X, !.y = PEN_EXIT_Y,
                   !.mode = IF isChasing THEN "chase" ELSE "scatter"]
    ELSE g

\* The arrival at the pen entrance as it would be if the ghost passed by.
ArriveEntrance_PassesBy(g) == g

\* The arrival at the pen entrance as it would be if the ghost left at once.
ArriveEntrance_LeavesAtOnce(g) ==
    IF g.mode = "eaten" /\ Abs(g.x - PEN_ENTRANCE_X) < Px(1)
                        /\ Abs(g.y - PEN_ENTRANCE_Y) < Px(1)
    THEN [g EXCEPT !.x = PEN_ENTRANCE_X, !.y = PEN_ENTRANCE_Y,
                   !.mode = "exiting", !.penTimer = 0]
    ELSE g

\* Lines 362-371: arrival at the pen entrance.
ArriveEntrance(g) ==
    IF g.mode = "eaten" /\ Abs(g.x - PEN_ENTRANCE_X) < Px(1)
                        /\ Abs(g.y - PEN_ENTRANCE_Y) < Px(1)
    THEN [g EXCEPT !.x = PEN_ENTRANCE_X, !.y = PEN_ENTRANCE_Y,
                   !.mode = "pen", !.penTimer = Sec100(100)]
    ELSE g

\* The rest of the move as it would be if the leftover were dropped.
GhostLeaveCentre_DropsLeftover(g, exitMode, remaining, dir) ==
    [ghost |-> [g EXCEPT !.dir = dir], modes |-> <<exitMode, g.mode>>]

\* Lines 373-393: the new direction and the rest of the move.  exitMode is
\* the mode after the test of the exit, g the ghost after both arrival tests.
GhostLeaveCentre(g, exitMode, remaining, dir) ==
    LET final == IF remaining > 0
                 THEN Advance(g.x, g.y, dir, remaining)
                 ELSE [x |-> g.x, y |-> g.y]
    IN  [ghost |-> [g EXCEPT !.x = final.x, !.y = final.y, !.dir = dir],
         modes |-> <<exitMode, g.mode>>]

\* Line 375: the direction picked on the centre.  The set constructors fix the
\* ghost on the centre, the leftover and the picked direction as values.
GhostTurnAtCentre(g, exitMode, remaining, target, maze, rnd) ==
    CHOOSE result \in
      UNION {{GhostLeaveCentre(h, exitMode, rest, dir) :
                dir \in {pickDirection(h.x, h.y, h.dir, t.x, t.y, h.mode, maze, rnd)}} :
             h \in {g}, rest \in {remaining}, t \in {target}} : TRUE

\* Lines 352-371: the two arrival tests, on the ghost snapped to the centre.
GhostAfterExit(atExit, remaining, target, maze, rnd) ==
    GhostTurnAtCentre(ArriveEntrance(atExit), atExit.mode, remaining, target, maze, rnd)

\* Lines 340-391: the centre crossed, if one was; found is the result of
\* findCrossedCenter and moved the position after the full step.
GhostAtCentre(g, moved, found, axisFrom, target, dt, maze, isChasing, rnd) ==
    IF found = << >>
    THEN [ghost |-> [g EXCEPT !.x = moved.x, !.y = moved.y],
          modes |-> <<g.mode, g.mode>>]
    ELSE LET movingH == g.dir = "left" \/ g.dir = "right"
             crossed == found[1]
             distToCenter == Abs(crossed - axisFrom)
             remaining == GHOST_SPEED * dt - distToCenter
             snapped == [g EXCEPT !.x = IF movingH THEN crossed ELSE snapToCenter(g.x),
                                  !.y = IF movingH THEN snapToCenter(g.y) ELSE crossed]
         IN  GhostAfterExit(ArriveExit(snapped, isChasing), remaining, target, maze, rnd)

\* The move as it would be if every step travelled a pixel more.
MoveGhost_ExtraPixel(g, target, dt, maze, isChasing, rnd) ==
    LET dist == GHOST_SPEED * dt + Px(1)
        movingH == g.dir = "left" \/ g.dir = "right"
        moved == Advance(g.x, g.y, g.dir, dist)
        axisFrom == IF movingH THEN g.x ELSE g.y
        axisTo == IF movingH THEN moved.x ELSE moved.y
    IN  GhostAtCentre(g, moved, findCrossedCenter(axisFrom, axisTo), axisFrom,
                      target, dt, maze, isChasing, rnd)

\* Lines 314-391: the move of a ghost that is not waiting in the pen.  g is the
\* ghost after the frightened countdown; the target was chosen for g.mode.
\* The result also lists the mode after each of the two arrival tests.
MoveGhost(g, target, dt, maze, isChasing, rnd) ==
    LET dist == GHOST_SPEED * dt
        movingH == g.dir = "left" \/ g.dir = "right"
        prevX == g.x
        prevY == g.y
        moved == Advance(prevX, prevY, g.dir, dist)
        axisFrom == IF movingH THEN prevX ELSE prevY
        axisTo == IF movingH THEN moved.x ELSE moved.y
    IN  GhostAtCentre(g, moved, findCrossedCenter(axisFrom, axisTo), axisFrom,
                      target, dt, maze, isChasing, rnd)

\* Lines 330-350: the tile centre at which a step of the ghost g, taken after
\* the frightened countdown and outside the pen, runs the arrival tests and
\* pickDirection: << >> if findCrossedCenter returns null, else <<x, y>>.
crossingOf(g, dt) ==
    LET movingH == g.dir = "left" \/ g.dir = "right"
        moved == Advance(g.x, g.y, g.dir, GHOST_SPEED * dt)
        axisFrom == IF movingH THEN g.x ELSE g.y
        axisTo == IF movingH THEN moved.x ELSE moved.y
        found == findCrossedCenter(axisFrom, axisTo)
    IN  IF found = << >> THEN << >>
        ELSE IF movingH THEN <<found[1], snapToCenter(g.y)>>
        ELSE <<snapToCenter(g.x), found[1]>>

PenTrace(timed, waited) ==
    [ghost |-> waited, modes |-> <<timed.mode, waited.mode, waited.mode, waited.mode>>]

MoveTrace(timed, m) ==
    [ghost |-> m.ghost, modes |-> <<timed.mode, timed.mode>> \o m.modes]

\* Lines 274-393, on the ghost as the frightened countdown left it.
GhostAfterTimer(ghost, timed, playerX, playerY, playerFacing, dt, maze, isChasing, rnd) ==
    IF timed.mode = "pen"
    THEN PenTrace(timed, PenWaiting(timed, dt))
    ELSE MoveTrace(timed,
                   MoveGhost(timed,
                             TargetOf(ghost, timed.mode, playerX, playerY, playerFacing),
                             dt, maze, isChasing, rnd))

\* updateGhost, with the mode after each place that may assign it:
\* the frightened countdown, the pen wait, the arrival at the exit and the
\* arrival at the entrance.
updateGhostTrace(ghost, playerX, playerY, playerFacing, dt, maze, isChasing, rnd) ==
    GhostAfterTimer(ghost, FrightenedTimerStep(ghost, dt, isChasing),
                    playerX, playerY, playerFacing, dt, maze, isChasing, rnd)

updateGhost(ghost, playerX, playerY, playerFacing, dt, maze, isChasing, rnd) ==
    updateGhostTrace(ghost, playerX, playerY, playerFacing, dt, maze, isChasing, rnd).ghost
(***************************************************************************)
(* Bonus fruit                                                             *)
(***************************************************************************)
FRUIT_POINTS ==
    [cherry |-> 100, strawberry |-> 300, orange |-> 500, banana |-> 700, melon |-> 1000]
LEVEL_FRUIT == <<"cherry", "strawberry", "orange", "banana", "melon">>
FRUIT_DURATION == Sec100(1000)
FRUIT_RADIUS == Px(10)

fruitTypeForLevel(level) ==
    LET idx == Min(level - 1, Len(LEVEL_FRUIT) - 1)
    IN  LEVEL_FRUIT[idx + 1]

(***************************************************************************)
(* Round orchestrator                                                      *)
(***************************************************************************)
\* The threshold as it would be without the forgiveness margin.
COLLISION_DIST_NoMargin == PACMAN_RADIUS + GHOST_RADIUS
COLLISION_DIST == PACMAN_RADIUS + GHOST_RADIUS - Px(4)
SCATTER_DURATION == Sec100(500)
CHASE_DURATION == Sec100(2000)
\* deathProgress is kept multiplied by DEATH_ANIM_DURATION: the ratio 1 is
\* the value DEATH_ANIM_DURATION.
DEATH_ANIM_DURATION == Sec100(120)
RESPAWN_FREEZE == Sec100(150)
LEVEL_COMPLETE_PAUSE == Sec100(300)
CanvasWidth == Px(560)
\* Math.min(elapsed, 0.1) in Game.loop
MaxDt == 10

\* The wrap as it would be if it acted on every row.
wrapTunnels_AnyRow(player, tunnelRow, canvasWidth) ==
    IF player.x < 0 THEN [player EXCEPT !.x = canvasWidth - PACMAN_RADIUS]
    ELSE IF player.x >= canvasWidth THEN [player EXCEPT !.x = PACMAN_RADIUS]
    ELSE player

wrapTunnels(player, tunnelRow, canvasWidth) ==
    LET row == FloorDiv(player.y, TILE)
    IN  IF row # tunnelRow THEN player
        ELSE IF player.x < 0 THEN [player EXCEPT !.x = canvasWidth - PACMAN_RADIUS]
        ELSE IF player.x >= canvasWidth THEN [player EXCEPT !.x = PACMAN_RADIUS]
        ELSE player

wrapGhostTunnel(ghost, tunnelRow, canvasWidth) ==
    LET row == FloorDiv(ghost.y, TILE)
    IN  IF row # tunnelRow THEN ghost
        ELSE IF ghost.x < 0 THEN [ghost EXCEPT !.x = canvasWidth - GHOST_RADIUS]
        ELSE IF ghost.x >= canvasWidth THEN [ghost EXCEPT !.x = GHOST_RADIUS]
        ELSE ghost

StartX == LEVEL_1.playerStart.col * TILE + TILE \div 2
StartY == LEVEL_1.playerStart.row * TILE + TILE \div 2

createGhosts ==
    LET blinkyStart == LEVEL_1.ghostStarts[1]
        pinkyStart == LEVEL_1.ghostStarts[2]
        clydeStart == LEVEL_1.ghostStarts[3]
    IN  << createGhost(blinkyStart.col * TILE + TILE \div 2,
                       blinkyStart.row * TILE + TILE \div 2, "blinky", Sec100(100)),
           createGhost(pinkyStart.col * TILE + TILE \div 2,
                       pinkyStart.row * TILE + TILE \div 2, "pinky", Sec100(400)),
           createGhost(clydeStart.col * TILE + TILE \div 2,
                       clydeStart.row * TILE + TILE \div 2, "clyde", Sec100(700)) >>

CountPellets(dots) ==
    LET isPellet(d) == d.isPellet
    IN  Len(SelectSeq(dots, isPellet))

\* The frighten override as it would be without the test of the mode.
FrightenOverride_EveryGhost(ghosts) ==
    [i \in DOMAIN ghosts |->
       [ghosts[i] EXCEPT !.mode = "frightened", !.frightenedTimer = FRIGHTENED_DURATION]]

\* The frighten override as it would be if it took effect a tick late.
FrightenOverride_NextTick(ghosts) == ghosts

\* Lines 273-284: the frighten override.
FrightenOverride(ghosts) ==
    [i \in DOMAIN ghosts |->
       IF ghosts[i].mode \in {"scatter", "chase", "frightened"}
       THEN [ghosts[i] EXCEPT !.mode = "frightened", !.frightenedTimer = FRIGHTENED_DURATION]
       ELSE ghosts[i]]

\* The reversal as it would be if it turned every ghost round.
ReverseRoaming_EveryGhost(ghosts) ==
    [i \in DOMAIN ghosts |-> [ghosts[i] EXCEPT !.dir = oppositeDir(ghosts[i].dir)]]

\* Lines 341-346: the reversal at a phase flip.
ReverseRoaming(ghosts) ==
    [i \in DOMAIN ghosts |->
       IF ghosts[i].mode = "scatter" \/ ghosts[i].mode = "chase"
       THEN [ghosts[i] EXCEPT !.dir = oppositeDir(ghosts[i].dir)]
       ELSE ghosts[i]]

DistSq(ax, ay, bx, by) == (ax - bx) * (ax - bx) + (ay - by) * (ay - by)

\* The collision scan as it would be without the break at a lethal contact.
RECURSIVE CollisionScan_NoBreak(_, _)
CollisionScan_NoBreak(acc, i) ==
    IF i > Len(acc.ghosts) THEN acc
    ELSE LET g == acc.ghosts[i]
             distSq == DistSq(acc.player.x, acc.player.y, g.x, g.y)
         IN  IF distSq < COLLISION_DIST * COLLISION_DIST
             THEN IF g.mode = "frightened"
                  THEN CollisionScan_NoBreak(
                         [acc EXCEPT !.ghosts[i] = [g EXCEPT !.mode = "eaten",
                                                             !.frightenedTimer = 0],
                                     !.score = acc.score + 200], i + 1)
                  ELSE IF g.mode # "eaten" /\ g.mode # "pen" /\ g.mode # "exiting"
                  THEN CollisionScan_NoBreak(
                         [acc EXCEPT !.player = [acc.player EXCEPT !.dying = TRUE,
                                                                   !.deathProgress = 0]],
                         i + 1)
                  ELSE CollisionScan_NoBreak(acc, i + 1)
             ELSE CollisionScan_NoBreak(acc, i + 1)

\* Lines 366-389: the collision scan from ghost i on.  acc carries the ghosts,
\* the score and the player as the loop has left them.
RECURSIVE CollisionScan(_, _)
CollisionScan(acc, i) ==
    IF i > Len(acc.ghosts) THEN acc
    ELSE LET g == acc.ghosts[i]
             distSq == DistSq(acc.player.x, acc.player.y, g.x, g.y)
         IN  IF distSq < COLLISION_DIST * COLLISION_DIST
             THEN IF g.mode = "frightened"
                  THEN CollisionScan(
                         [acc EXCEPT !.ghosts[i] = [g EXCEPT !.mode = "eaten",
                                                             !.frightenedTimer = 0],
                                     !.score = acc.score + 200], i + 1)
                  ELSE IF g.mode # "eaten" /\ g.mode # "pen" /\ g.mode # "exiting"
                  THEN [acc EXCEPT !.player = [acc.player EXCEPT !.dying = TRUE,
                                                                 !.deathProgress = 0]]
                  ELSE CollisionScan(acc, i + 1)
             ELSE CollisionScan(acc, i + 1)

\* What the last call of update did: its inputs, the branch it took, whether the
\* pickup removed a power pellet, whether the phase flipped, the ghosts as the
\* frighten override left them and as updateGhost and the tunnel wrap left
\* them, and for each ghost the mode after each place that may assign it.
NoTick ==
    [branch |-> "none", dt |-> 0, intent |-> NoDir, pellet |-> FALSE, flipped |-> FALSE,
     overridden |-> << >>, stepped |-> << >>, trail |-> << >>]

\* Lines 392-398
resetPositions(s) ==
    [s EXCEPT !.player = createPlayer(StartX, StartY), !.ghosts = createGhosts]

ResetTrail(s) == [i \in DOMAIN s.ghosts |-> <<s.ghosts[i].mode, "pen">>]

\* The level-complete countdown as it would be if the phase were not reset.
LevelCompleteTick_KeepsPhase(s, dt, intent) ==
    LET t == Max(0, s.levelCompleteTimer - dt)
        waited == [s EXCEPT !.levelCompleteTimer = t]
    IN  IF t = 0
        THEN [resetPositions(waited) EXCEPT
                !.levelComplete = FALSE,
                !.level = s.level + 1,
                !.dots = createDotsFromMaze(Level1Maze),
                !.initialDotCount = Len(createDotsFromMaze(Level1Maze)),
                !.fruit = << >>,
                !.fruitSpawnCount = 0,
                !.last = [NoTick EXCEPT !.branch = "levelNext", !.dt = dt,
                                        !.intent = intent, !.trail = ResetTrail(s)]]
        ELSE [waited EXCEPT !.last = [NoTick EXCEPT !.branch = "levelWait", !.dt = dt,
                                                    !.intent = intent]]

\* Lines 187-202
LevelCompleteTick(s, dt, intent) ==
    LET t == Max(0, s.levelCompleteTimer - dt)
        waited == [s EXCEPT !.levelCompleteTimer = t]
    IN  IF t = 0
        THEN [resetPositions(waited) EXCEPT
                !.levelComplete = FALSE,
                !.level = s.level + 1,
                !.dots = createDotsFromMaze(Level1Maze),
                !.initialDotCount = Len(createDotsFromMaze(Level1Maze)),
                !.fruit = << >>,
                !.fruitSpawnCount = 0,
                !.isChasing = TRUE,
                !.modeTimer = 0,
                !.last = [NoTick EXCEPT !.branch = "levelNext", !.dt = dt,
                                        !.intent = intent, !.trail = ResetTrail(s)]]
        ELSE [waited EXCEPT !.last = [NoTick EXCEPT !.branch = "levelWait", !.dt = dt,
                                                    !.intent = intent]]

\* The death animation as it would be if every tick of it took a life.
DeathTick_EveryTick(s, dt, intent) ==
    LET progress == Min(DEATH_ANIM_DURATION, s.player.deathProgress + dt)
        advanced == [s EXCEPT !.player.deathProgress = progress, !.lives = s.lives - 1]
    IN  IF progress >= DEATH_ANIM_DURATION
        THEN IF advanced.lives <= 0
             THEN [advanced EXCEPT
                     !.gameOver = TRUE,
                     !.last = [NoTick EXCEPT !.branch = "gameOverSet", !.dt = dt,
                                             !.intent = intent]]
             ELSE [resetPositions(advanced) EXCEPT
                     !.respawnTimer = RESPAWN_FREEZE,
                     !.last = [NoTick EXCEPT !.branch = "respawnSet", !.dt = dt,
                                             !.intent = intent,
                                             !.trail = ResetTrail(s)]]
        ELSE [advanced EXCEPT !.last = [NoTick EXCEPT !.branch = "dying", !.dt = dt,
                                                      !.intent = intent]]

\* The death animation as it would be if the freeze began with the player
\* still dying.
DeathTick_StaysDying(s, dt, intent) ==
    LET progress == Min(DEATH_ANIM_DURATION, s.player.deathProgress + dt)
        advanced == [s EXCEPT !.player.deathProgress = progress]
    IN  IF progress >= DEATH_ANIM_DURATION
        THEN LET lives == s.lives - 1
             IN  IF lives <= 0
                 THEN [advanced EXCEPT
                         !.lives = lives,
                         !.gameOver = TRUE,
                         !.last = [NoTick EXCEPT !.branch = "gameOverSet", !.dt = dt,
                                                 !.intent = intent]]
                 ELSE [advanced EXCEPT
                         !.lives = lives,
                         !.respawnTimer = RESPAWN_FREEZE,
                         !.last = [NoTick EXCEPT !.branch = "respawnSet", !.dt = dt,
                                                 !.intent = intent,
                                                 !.trail = ResetTrail(s)]]
        ELSE [advanced EXCEPT !.last = [NoTick EXCEPT !.branch = "dying", !.dt = dt,
                                                      !.intent = intent]]

\* The death animation as it would be if the respawn reset no position.
DeathTick_NoReset(s, dt, intent) ==
    LET progress == Min(DEATH_ANIM_DURATION, s.player.deathProgress + dt)
        advanced == [s EXCEPT !.player.deathProgress = progress]
    IN  IF progress >= DEATH_ANIM_DURATION
        THEN LET lives == s.lives - 1
             IN  IF lives <= 0
                 THEN [advanced EXCEPT
                         !.lives = lives,
                         !.gameOver = TRUE,
                         !.last = [NoTick EXCEPT !.branch = "gameOverSet", !.dt = dt,
                                                 !.intent = intent]]
                 ELSE [advanced EXCEPT
                         !.player.dying = FALSE,
                         !.lives = lives,
                         !.respawnTimer = RESPAWN_FREEZE,
                         !.last = [NoTick EXCEPT !.branch = "respawnSet", !.dt = dt,
                                                 !.intent = intent,
                                                 !.trail = ResetTrail(s)]]
        ELSE [advanced EXCEPT !.last = [NoTick EXCEPT !.branch = "dying", !.dt = dt,
                                                      !.intent = intent]]

\* Lines 204-221
DeathTick(s, dt, intent) ==
    LET progress == Min(DEATH_ANIM_DURATION, s.player.deathProgress + dt)
        advanced == [s EXCEPT !.player.deathProgress = progress]
    IN  IF progress >= DEATH_ANIM_DURATION
        THEN LET lives == s.lives - 1
             IN  IF lives <= 0
                 THEN [advanced EXCEPT
                         !.lives = lives,
                         !.gameOver = TRUE,
                         !.last = [NoTick EXCEPT !.branch = "gameOverSet", !.dt = dt,
                                                 !.intent = intent]]
                 ELSE [resetPositions(advanced) EXCEPT
                         !.lives = lives,
                         !.respawnTimer = RESPAWN_FREEZE,
                         !.last = [NoTick EXCEPT !.branch = "respawnSet", !.dt = dt,
                                                 !.intent = intent,
                                                 !.trail = ResetTrail(s)]]
        ELSE [advanced EXCEPT !.last = [NoTick EXCEPT !.branch = "dying", !.dt = dt,
                                                      !.intent = intent]]

\* The respawn freeze as it would be if the phase timer kept running.
RespawnTick_PhaseRuns(s, dt, intent) ==
    [s EXCEPT !.respawnTimer = Max(0, s.respawnTimer - dt),
              !.modeTimer = s.modeTimer + dt,
              !.last = [NoTick EXCEPT !.branch = "respawn", !.dt = dt, !.intent = intent]]

\* Lines 223-227
RespawnTick(s, dt, intent) ==
    [s EXCEPT !.respawnTimer = Max(0, s.respawnTimer - dt),
              !.last = [NoTick EXCEPT !.branch = "respawn", !.dt = dt, !.intent = intent]]

\* The fruit collection as it would be if it took points off the score.
FruitCollect_TakesPoints(s) ==
    IF s.fruit # << >>
    THEN LET fdx == s.player.x - s.fruit[1].x
             fdy == s.player.y - s.fruit[1].y
         IN  IF fdx * fdx + fdy * fdy
                  < (PACMAN_RADIUS + FRUIT_RADIUS) * (PACMAN_RADIUS + FRUIT_RADIUS)
             THEN [s EXCEPT !.score = s.score - FRUIT_POINTS[s.fruit[1].type],
                            !.fruit = << >>]
             ELSE s
    ELSE s

\* Lines 286-325: fruit spawn, fruit timer and fruit collection, on the round
\* as the pickup left it.
\* The spawn as it would be without the cap of two per level.
FruitSpawn_NoCap(s) ==
    IF s.fruit = << >>
    THEN LET dotsEaten == s.initialDotCount - Len(s.dots)
             threshold == IF s.fruitSpawnCount = 0
                          THEN FloorDiv(s.initialDotCount, 3)
                          ELSE FloorDiv(2 * s.initialDotCount, 3)
         IN  IF dotsEaten >= threshold
             THEN [s EXCEPT !.fruit = << [x |-> StartX, y |-> StartY,
                                          type |-> fruitTypeForLevel(s.level),
                                          timer |-> FRUIT_DURATION] >>,
                            !.fruitSpawnCount = s.fruitSpawnCount + 1]
             ELSE s
    ELSE s

FruitSpawn(s) ==
    IF s.fruit = << >> /\ s.fruitSpawnCount < 2
    THEN LET dotsEaten == s.initialDotCount - Len(s.dots)
             threshold == IF s.fruitSpawnCount = 0
                          THEN FloorDiv(s.initialDotCount, 3)
                          ELSE FloorDiv(2 * s.initialDotCount, 3)
         IN  IF dotsEaten >= threshold
             THEN [s EXCEPT !.fruit = << [x |-> StartX, y |-> StartY,
                                          type |-> fruitTypeForLevel(s.level),
                                          timer |-> FRUIT_DURATION] >>,
                            !.fruitSpawnCount = s.fruitSpawnCount + 1]
             ELSE s
    ELSE s

FruitTimer(s, dt) ==
    IF s.fruit # << >>
    THEN LET t == Max(0, s.fruit[1].timer - dt)
         IN  IF t = 0 THEN [s EXCEPT !.fruit = << >>]
             ELSE [s EXCEPT !.fruit = << [s.fruit[1] EXCEPT !.timer = t] >>]
    ELSE s

FruitCollect(s) ==
    IF s.fruit # << >>
    THEN LET fdx == s.player.x - s.fruit[1].x
             fdy == s.player.y - s.fruit[1].y
         IN  IF fdx * fdx + fdy * fdy
                  < (PACMAN_RADIUS + FRUIT_RADIUS) * (PACMAN_RADIUS + FRUIT_RADIUS)
             THEN [s EXCEPT !.score = s.score + FRUIT_POINTS[s.fruit[1].type],
                            !.fruit = << >>]
             ELSE s
    ELSE s

\* Lines 229-260: the blocking predicate, the bounds, the player step and the
\* tunnel wrap.
PlayerStep(player, intent, dt, maze, width) ==
    LET mazeHeight == maze.rows * TILE
        tunnelRow == maze.tunnelRow
        playerRow == FloorDiv(player.y, TILE)
        bounds == IF playerRow = tunnelRow
                  THEN [width |-> width, height |-> mazeHeight,
                        xMin |-> -TILE, xMax |-> width + TILE]
                  ELSE [width |-> width, height |-> mazeHeight]
    IN  wrapTunnels(updatePlayer(player, intent, dt, bounds,
                                 wallFn(maze, tunnelRow, width)),
                    tunnelRow, width)

\* Lines 262-267: the pickup, given the dots that remain.
Pickup(s, player, dots) ==
    [s EXCEPT !.player = player, !.dots = dots,
              !.score = s.score + (Len(s.dots) - Len(dots))]

PickupAt(s, player) ==
    Pickup(s, player, eatDots(s.dots, player.x, player.y, PACMAN_RADIUS))

\* Lines 229-267: the player step, the tunnel wrap and the pickup.
PlayerAndPickup(s, dt, intent) ==
    PickupAt(s, PlayerStep(s.player, intent, dt, Level1Maze, CanvasWidth))

\* Lines 349-364: updateGhost on every ghost, with the modes it went through.
\* (Appending << >> turns the function into a sequence of its values, so that
\* each ghost is stepped once.)
StepGhosts(turned, player, dt, maze, isChasing, rnd) ==
    [i \in DOMAIN turned |->
       updateGhostTrace(turned[i], player.x, player.y, player.facing,
                        dt, maze, isChasing, rnd[i])] \o << >>

\* Lines 358-363: the tunnel wrap of every ghost.
WrapGhosts(traces, tunnelRow, width) ==
    [i \in DOMAIN traces |-> wrapGhostTunnel(traces[i].ghost, tunnelRow, width)] \o << >>

\* The round after the collision scan, with the record of the tick.
AfterScan(s, dt, intent, pellet, startModes, flip, traces, stepped, scanned) ==
    [s EXCEPT !.modeTimer = IF flip THEN 0 ELSE s.modeTimer + dt,
              !.isChasing = IF flip THEN ~s.isChasing ELSE s.isChasing,
              !.ghosts = scanned.ghosts,
              !.score = scanned.score,
              !.player = scanned.player,
              !.last = [branch |-> "play", dt |-> dt, intent |-> intent,
                        pellet |-> pellet, flipped |-> flip,
                        overridden |-> s.ghosts, stepped |-> stepped,
                        trail |-> [i \in DOMAIN s.ghosts |->
                                     <<startModes[i], s.ghosts[i].mode>>
                                     \o traces[i].modes
                                     \o <<scanned.ghosts[i].mode>>]]]

AfterWrap(s, dt, intent, pellet, startModes, flip, traces, stepped) ==
    AfterScan(s, dt, intent, pellet, startModes, flip, traces, stepped,
              CollisionScan([ghosts |-> stepped, score |-> s.score,
                             player |-> s.player], 1))

AfterGhostStep(s, dt, intent, pellet, startModes, flip, traces) ==
    AfterWrap(s, dt, intent, pellet, startModes, flip, traces,
              WrapGhosts(traces, Level1Maze.tunnelRow, CanvasWidth))

\* Lines 334-389: the phase timer, the ghost step and the collision scan.
GhostsAndCollisions(s, dt, intent, rnd, pellet, startModes) ==
    LET modeTimer == s.modeTimer + dt
        phaseDuration == IF s.isChasing THEN CHASE_DURATION ELSE SCATTER_DURATION
        flip == modeTimer >= phaseDuration
        isChasing == IF flip THEN ~s.isChasing ELSE s.isChasing
    IN  AfterGhostStep(s, dt, intent, pellet, startModes, flip,
                       StepGhosts(IF flip THEN ReverseRoaming(s.ghosts) ELSE s.ghosts,
                                  s.player, dt, Level1Maze, isChasing, rnd))

\* Lines 327-389: the test of the cleared level and, if dots remain, the rest
\* of the tick.  s is the round as the tick found it.
AfterFruit(s, fruited, pellet, dt, intent, rnd) ==
    LET startModes == [i \in DOMAIN s.ghosts |-> s.ghosts[i].mode]
    IN  IF Len(fruited.dots) = 0
        THEN [fruited EXCEPT
                !.levelComplete = TRUE,
                !.levelCompleteTimer = LEVEL_COMPLETE_PAUSE,
                !.last = [NoTick EXCEPT !.branch = "cleared", !.dt = dt, !.intent = intent,
                                        !.pellet = pellet,
                                        !.overridden = fruited.ghosts,
                                        !.trail = [i \in DOMAIN s.ghosts |->
                                                     <<startModes[i],
                                                       fruited.ghosts[i].mode>>]]]
        ELSE GhostsAndCollisions(fruited, dt, intent, rnd, pellet, startModes)

\* Lines 269-325: the frighten override if a power pellet was eaten, then the
\* fruit.
AfterPellet(s, picked, pellet, dt, intent, rnd) ==
    AfterFruit(s,
               FruitCollect(FruitTimer(FruitSpawn(
                 IF pellet THEN [picked EXCEPT !.ghosts = FrightenOverride(s.ghosts)]
                 ELSE picked), dt)),
               pellet, dt, intent, rnd)

AfterPickup(s, picked, dt, intent, rnd) ==
    AfterPellet(s, picked, CountPellets(picked.dots) < CountPellets(s.dots),
                dt, intent, rnd)

\* Lines 229-389: a tick of play.
PlayTick(s, dt, intent, rnd) ==
    AfterPickup(s, PlayerAndPickup(s, dt, intent), dt, intent, rnd)

\* Game.update as it would be without the gate of the finished game.
update_NoGameOverGate(s, dt, intent, rnd) ==
    IF s.levelComplete THEN LevelCompleteTick(s, dt, intent)
    ELSE IF s.player.dying THEN DeathTick(s, dt, intent)
    ELSE IF s.respawnTimer > 0 THEN RespawnTick(s, dt, intent)
    ELSE PlayTick(s, dt, intent, rnd)

\* Game.update (lines 184-390) on the round s; rnd[i] is the random draw that
\* ghost i's direction choice consumes if it makes one.
update(s, dt, intent, rnd) ==
    IF s.gameOver
    THEN [s EXCEPT !.last = [NoTick EXCEPT !.branch = "gameOver", !.dt = dt,
                                           !.intent = intent]]
    ELSE IF s.levelComplete THEN LevelCompleteTick(s, dt, intent)
    ELSE IF s.player.dying THEN DeathTick(s, dt, intent)
    ELSE IF s.respawnTimer > 0 THEN RespawnTick(s, dt, intent)
    ELSE PlayTick(s, dt, intent, rnd)

\* The constructor (lines 119-138) with the field initialisers (lines 106-117).
NewGame ==
    [player |-> createPlayer(StartX, StartY),
     ghosts |-> createGhosts,
     dots |-> createDotsFromMaze(Level1Maze),
     score |-> 0, lives |-> 3, level |-> 1,
     fruit |-> << >>, fruitSpawnCount |-> 0,
     initialDotCount |-> Len(createDotsFromMaze(Level1Maze)),
     respawnTimer |-> 0, gameOver |-> FALSE,
     levelComplete |-> FALSE, levelCompleteTimer |-> 0,
     isChasing |-> TRUE, modeTimer |-> 0,
     last |-> NoTick]

(***************************************************************************)
(* The round as a state machine                                            *)
(***************************************************************************)
VARIABLES player, ghosts, dots, score, lives, level, fruit, fruitSpawnCount,
          initialDotCount, respawnTimer, gameOver, levelComplete,
          levelCompleteTimer, isChasing, modeTimer,
          last,       \* what the last call of update did
          prev,       \* the round as the last call of update found it
          scriptPos,  \* how many ticks of the recorded play have been fed
          freeUsed,   \* how many ticks of arbitrary input have been fed
          call        \* a call of pickDirection or of updatePlayer on its own

vars == <<player, ghosts, dots, score, lives, level, fruit, fruitSpawnCount,
          initialDotCount, respawnTimer, gameOver, levelComplete,
          levelCompleteTimer, isChasing, modeTimer, last, prev, scriptPos,
          freeUsed, call>>

Round ==
    [player |-> player, ghosts |-> ghosts, dots |-> dots, score |-> score,
     lives |-> lives, level |-> level, fruit |-> fruit,
     fruitSpawnCount |-> fruitSpawnCount, initialDotCount |-> initialDotCount,
     respawnTimer |-> respawnTimer, gameOver |-> gameOver,
     levelComplete |-> levelComplete, levelCompleteTimer |-> levelCompleteTimer,
     isChasing |-> isChasing, modeTimer |-> modeTimer, last |-> last]

Become(n) ==
    /\ player' = n.player
    /\ ghosts' = n.ghosts
    /\ dots' = n.dots
    /\ score' = n.score
    /\ lives' = n.lives
    /\ level' = n.level
    /\ fruit' = n.fruit
    /\ fruitSpawnCount' = n.fruitSpawnCount
    /\ initialDotCount' = n.initialDotCount
    /\ respawnTimer' = n.respawnTimer
    /\ gameOver' = n.gameOver
    /\ levelComplete' = n.levelComplete
    /\ levelCompleteTimer' = n.levelCompleteTimer
    /\ isChasing' = n.isChasing
    /\ modeTimer' = n.modeTimer
    /\ last' = n.last

(***************************************************************************)
(* The inputs of a tick: the elapsed time Game.loop computes (capped at    *)
(* MaxDt), the direction the Input object reports and the random draws.    *)
(***************************************************************************)
Intents == DirSet \cup {NoDir}
\* The least and the greatest elapsed time of a frame; the recorded play below
\* also has frames of MaxDt / 2.
DTs == {0, MaxDt}
\* pickDirection reads its draw only for a frightened ghost, and updateGhost
\* calls it only when the move of the tick crosses a tile centre.  A ghost is
\* frightened in its step only if the tick finds it frightened, or finds it in
\* scatter or chase while a power pellet of the maze lies where this tick's
\* pickup can reach (the player travels at most SPEED * dt after a snap of at
\* most half a tile).  For every other ghost the draw is fixed, as no result
\* depends on it.
PelletInReach(all, s, dt) ==
    LET reach == PACMAN_RADIUS + SPEED * dt + HALF_TILE
    IN  \E k \in DOMAIN all :
           /\ all[k].isPellet
           /\ Abs(all[k].x - s.player.x) <= reach
           /\ Abs(all[k].y - s.player.y) <= reach

MayCross(g, dt) ==
    LET from == IF g.dir = "left" \/ g.dir = "right" THEN g.x ELSE g.y
    IN  \/ findCrossedCenter(from, from + GHOST_SPEED * dt) # << >>
        \/ findCrossedCenter(from, from - GHOST_SPEED * dt) # << >>

Draws(s, dt) ==
    LET pellet == PelletInReach(Level1Dots, s, dt)
        consumes(i) == /\ \/ s.ghosts[i].mode = "frightened"
                          \/ s.ghosts[i].mode \in {"scatter", "chase"} /\ pellet
                       /\ MayCross(s.ghosts[i], dt)
    IN  {r \in [DOMAIN s.ghosts -> RandomDraw] :
           \A i \in DOMAIN s.ghosts : ~consumes(i) => r[i] = 0}

\* A recorded play, one number per tick:
\*   intent + 5 * (1 if dt is MaxDt / 2, 0 if dt is MaxDt) + 10 * (r1 + 2 r2 + 4 r3)
\* with intent 0 none, 1 up, 2 down, 3 left, 4 right.
ScriptCodes == <<
    21, 29, 41, 71, 11, 41, 63, 74, 31, 1, 41, 11, 2, 31, 41, 22, 21, 74, 32, 21, 71, 41, 54, 31, 41, 42, 52, 52, 63, 11,
    72, 12, 63, 57, 42, 2, 79, 72, 21, 12, 23, 63, 3, 31, 61, 13, 11, 41, 21, 61, 72, 72, 3, 23, 51, 21, 21, 1, 32, 1,
    21, 61, 21, 51, 41, 71, 43, 21, 21, 58, 41, 42, 12, 22, 33, 31, 1, 61, 72, 11, 71, 11, 1, 51, 11, 11, 41, 3, 51, 51,
    42, 43, 31, 21, 11, 11, 61, 1, 49, 4, 21, 1, 21, 31, 11, 48, 63, 41, 21, 11, 51, 11, 19, 31, 21, 21, 11, 31, 51, 1,
    42, 12, 72, 64, 51, 42, 42, 21, 71, 4, 11, 64, 71, 71, 61, 73, 48, 1, 11, 1, 72, 2, 3, 11, 71, 21, 41, 31, 53, 51,
    61, 51, 21, 71, 31, 41, 31, 61, 21, 41, 51, 61, 21, 13, 78, 61, 21, 31, 73, 3, 21, 13, 31, 31, 71, 21, 1, 31, 21, 21,
    3, 41, 41, 11, 31, 24, 1, 41, 61, 61, 12, 32, 41, 31, 11, 21, 61, 41, 1, 6, 31, 71, 61, 22, 62, 3, 32, 12, 53, 4,
    11, 31, 42, 42, 31, 21, 1, 1, 61, 43, 64, 51, 71, 1, 34, 31, 61, 41, 61, 61, 21, 2, 51, 51, 51, 41, 37, 71, 42, 43,
    3, 3, 52, 2, 53, 29, 32, 32, 13, 42, 28, 43, 61, 22, 43, 71, 51, 71, 23, 21, 1, 31, 41, 3, 24, 73, 41, 52, 53, 11,
    61, 51, 78, 13, 11, 52, 14, 31, 42, 32, 62, 12, 37, 13, 11, 41, 71, 56, 42, 62, 23, 2, 27, 63, 71, 61, 32, 62, 31, 61,
    1, 68, 31, 8, 31, 21, 11, 1, 61, 31, 21, 31, 78, 74, 47, 61, 53, 71, 61, 1, 11, 32, 31, 51, 71, 51, 66, 51, 62, 52,
    12, 43, 42, 42, 2, 2, 43, 43, 41, 61, 61, 62, 71, 41, 13, 36, 41, 1, 52, 22, 4, 19, 61, 44, 31, 24, 51, 21, 2, 1,
    62, 62, 32, 2, 17, 32, 67, 67, 77, 42, 42, 52, 42, 12, 72, 29, 72, 17, 42, 32, 47, 8, 7, 32, 22, 8, 23, 67, 52, 1,
    61, 66, 61, 41, 26, 57, 33, 32, 24, 56, 32, 42, 42, 32, 9, 62, 54, 51, 63, 64, 21, 7, 57, 76, 21, 31, 1, 66, 41, 44,
    46, 52, 11, 41, 72, 39, 12, 22, 18, 74, 31, 71, 56, 1, 36, 42, 62, 52, 48, 73, 21, 31, 61, 41, 31, 58, 58, 7, 1, 76,
    72, 32, 27, 3, 14, 52, 32, 3, 71, 52, 1, 22, 51, 21, 21, 31, 21, 21, 52, 27, 54, 1, 11, 21, 41, 41, 51, 22, 41, 23,
    11, 4, 1, 21, 1, 51, 1, 41, 51, 21, 41, 44, 51, 71, 39, 21, 11, 33, 21, 44, 26, 61, 31, 1, 71, 1, 71, 53, 41, 74,
    51, 21, 21, 1, 21, 11, 41, 21, 61, 1, 11, 61, 11, 11, 56, 21, 71, 41, 23, 1, 73, 51, 61, 51, 64, 41, 41, 41, 33, 71,
    1, 31, 41, 11, 6, 11, 31, 56, 13, 52, 52, 18, 64, 24, 7, 71, 27, 67, 61, 23, 38, 31, 7, 41, 2, 72, 79, 29, 52, 27,
    69, 14, 79, 47, 21, 11, 54, 76, 56, 37, 76, 3, 39, 53, 17, 61, 24, 48, 79, 47, 23, 27, 21, 11, 1, 51, 22, 62, 2, 52,
    62, 52, 52, 12, 62, 13, 72, 2, 62, 52, 53, 62, 13, 42, 42, 62, 72, 23, 52, 2, 42, 42, 12, 22, 74, 7, 71, 41, 61, 12,
    52, 11, 42, 42, 52, 72, 24, 72, 33, 71, 11, 72, 61, 51, 42, 61, 3, 42, 64, 1, 1, 1, 33, 31, 21, 41, 11, 32, 11, 2,
    41, 51, 21, 24, 31, 64, 62, 41, 71, 19, 71, 61, 61, 13, 22, 73, 21, 10, 60, 30, 5, 10, 0, 10, 55, 50, 75, 0, 0, 70,
    10, 20, 0, 50, 0, 70, 40, 0, 65, 0, 30, 70, 30, 55, 40, 60, 65, 60, 20, 25, 35, 4, 72, 42, 62, 32, 54, 76, 46, 49,
    51, 1, 31, 52, 26, 31, 26, 22, 61, 42, 1, 52, 51, 72, 41, 7, 29, 31, 42, 51, 57, 29, 51, 48, 4, 46, 72, 1, 2, 21,
    47, 68, 57, 26, 76, 8, 77, 28, 9, 29, 44, 4, 76, 62, 28, 67, 66, 39, 32, 8, 14, 9, 67, 61, 37, 41, 78, 62, 12, 79,
    12, 68, 42, 32, 24, 61, 17, 26, 7, 51, 74, 22, 41, 67, 6, 38, 79, 27, 17, 22, 8, 28, 52, 57, 28, 78, 63, 39, 36, 53,
    11, 26, 46, 66, 28, 34, 78, 18, 57, 8, 67, 76, 26, 47, 41, 39, 33, 78, 42, 67, 51, 46, 31, 26, 59, 16, 13, 11, 49, 61,
    51, 1, 1, 11, 59, 2, 71, 39, 11, 17, 41, 37, 51, 66, 1, 41, 31, 66, 43, 34, 29, 29, 68, 1, 11, 38, 64, 37, 56, 17,
    3, 29, 56, 19, 3, 11, 78, 71, 31, 71, 31, 76, 9, 51, 1, 31, 41, 73, 63, 59, 61, 21, 21, 24, 73, 71, 44, 41, 67, 21,
    68, 39, 52, 32, 71, 22, 42, 12, 12, 39, 72, 51, 52, 62, 46, 22, 6, 41, 52, 62, 11, 62, 22, 11, 22, 22, 2, 41, 1, 2,
    12, 51, 61, 52, 32, 71, 46, 12, 21, 2, 52, 22, 33, 1, 11, 76, 71, 22, 21, 24, 41, 58, 52, 76, 11, 2, 61, 77, 24, 1,
    21, 42, 22, 22, 48, 24, 78, 61, 14, 31, 21, 42, 78, 62, 13, 76, 46, 76, 17, 18, 67, 78, 62, 68, 12, 77, 67, 64, 61, 56,
    17, 2, 12, 3, 61, 31, 71, 61, 21, 41, 46, 31, 36, 1, 41, 51, 11, 32, 61, 11, 71, 31, 73, 3, 21, 11, 61, 72, 22, 17,
    13, 42, 12, 31, 11, 21, 12, 1, 71, 16, 31, 23, 21, 41, 21, 20, 10, 35, 40, 20, 60, 60, 40, 50, 35, 30, 55, 60, 60, 0,
    65, 30, 45, 50, 50, 0, 10, 20, 60, 60, 10, 20, 20, 40, 20, 61, 73, 38, 3, 63, 51, 1, 53, 11, 58, 21, 8, 61, 36, 17,
    36, 28, 12, 71, 22, 56, 29, 53, 63, 38, 23, 79, 33, 28, 7, 1, 39, 63, 38, 3, 58, 3, 3, 3, 43, 38, 21, 77, 68, 8,
    44, 3, 68, 59, 28, 68, 69, 72, 69, 27, 18, 17, 36, 23, 42, 32, 12, 13, 31, 71, 41, 61, 61, 21, 51, 11, 53, 3, 61, 71,
    12, 72, 62, 58, 24, 53, 31, 21, 31, 71, 14, 61, 1, 21, 61, 62, 41, 12, 61, 61, 71, 24, 31, 63, 71, 31, 61, 1, 14, 11,
    41, 41, 20, 10, 35, 40, 20, 60, 60, 40, 50, 35, 30, 55, 60, 60, 0, 65, 30, 45, 50, 50, 0, 10, 20, 60, 60, 10, 20, 20,
    40, 20, 23, 11, 33, 71, 47, 52, 33, 22, 44, 61, 3, 44, 43, 24, 53, 52, 71, 44, 41, 21, 43, 11, 43, 41, 4, 61, 13, 11,
    74, 72, 31, 51, 31, 63, 44, 71, 13, 1, 24, 73, 51, 31, 21, 51, 51, 51, 20, 30, 70, 50, 10, 55, 50, 0, 60, 60, 0, 10,
    0, 0, 0 >>
ScriptIntent(code) == <<NoDir, "up", "down", "left", "right">>[(code % 5) + 1]
ScriptDt(code) == IF (code \div 5) % 2 = 1 THEN MaxDt \div 2 ELSE MaxDt
ScriptRnd(code) ==
    LET bits == code \div 10
    IN  <<bits % 2, (bits \div 2) % 2, (bits \div 4) % 2>>

\* How many ticks of arbitrary input may follow the recorded ones.
MaxFree == 1

\* The round n as the state.
Starts(n) ==
    /\ player = n.player
    /\ ghosts = n.ghosts
    /\ dots = n.dots
    /\ score = n.score
    /\ lives = n.lives
    /\ level = n.level
    /\ fruit = n.fruit
    /\ fruitSpawnCount = n.fruitSpawnCount
    /\ initialDotCount = n.initialDotCount
    /\ respawnTimer = n.respawnTimer
    /\ gameOver = n.gameOver
    /\ levelComplete = n.levelComplete
    /\ levelCompleteTimer = n.levelCompleteTimer
    /\ isChasing = n.isChasing
    /\ modeTimer = n.modeTimer
    /\ last = n.last
    /\ prev = n

\* No function has been called on its own.
NoCall == [fn |-> "none"]

Init ==
    /\ Starts(NewGame)
    /\ scriptPos = 0
    /\ freeUsed = 0
    /\ call = NoCall

\* A tick of the recorded play.
ScriptedTick ==
    /\ freeUsed = 0
    /\ scriptPos < Len(ScriptCodes)
    /\ LET code == ScriptCodes[scriptPos + 1]
       IN  Become(update(Round, ScriptDt(code), ScriptIntent(code), ScriptRnd(code)))
    /\ prev' = [Round EXCEPT !.last = NoTick]
    /\ scriptPos' = scriptPos + 1
    /\ UNCHANGED <<freeUsed, call>>

\* A tick with any input.
FreeTick ==
    /\ freeUsed < MaxFree
    /\ \E dt \in DTs :
         LET draws == Draws(Round, dt)
         IN  \E intent \in Intents, rnd \in draws :
               Become(update(Round, dt, intent, rnd))
    /\ prev' = [Round EXCEPT !.last = NoTick]
    /\ freeUsed' = freeUsed + 1
    /\ UNCHANGED <<scriptPos, call>>

Next == ScriptedTick \/ FreeTick

Spec == Init /\ [][Next]_vars

(***************************************************************************)
(* pickDirection on its own: the arguments are drawn at the start and the   *)
(* one step applies the function.  The ghost stands on the centre of a tile *)
(* of the level-1 maze that is not a wall; the target is one of nine tile   *)
(* centres spread over the maze; the draw matters to a frightened ghost     *)
(* only.                                                                    *)
(***************************************************************************)
gameVars == <<player, ghosts, dots, score, lives, level, fruit, fruitSpawnCount,
              initialDotCount, respawnTimer, gameOver, levelComplete,
              levelCompleteTimer, isChasing, modeTimer, last, prev, scriptPos,
              freeUsed>>

Center(k) == k * TILE + TILE \div 2

PickCells ==
    {cell \in (0..27) \X (0..30) : getTile(Level1Maze, cell[1], cell[2]) # "wall"}

PickTargets == {<<Center(c), Center(r)>> : c \in {1, 13, 26}, r \in {1, 14, 29}}

PickInit ==
    /\ Starts(NewGame)
    /\ scriptPos = 0
    /\ freeUsed = 0
    /\ \E cell \in PickCells, currentDir \in DirSet, target \in PickTargets,
           mode \in GhostModes, rnd \in RandomDraw :
          /\ mode # "frightened" => rnd = 0
          /\ call = [fn |-> "pickDirection", x |-> Center(cell[1]), y |-> Center(cell[2]),
                     currentDir |-> currentDir, targetX |-> target[1],
                     targetY |-> target[2], mode |-> mode, rnd |-> rnd,
                     result |-> << >>]

PickCall ==
    /\ call.fn = "pickDirection"
    /\ call.result = << >>
    /\ call' = [call EXCEPT !.result =
                   << pickDirection(call.x, call.y, call.currentDir, call.targetX,
                                    call.targetY, call.mode, Level1Maze, call.rnd) >>]
    /\ UNCHANGED gameVars

PickSpec == PickInit /\ [][PickCall]_vars

(***************************************************************************)
(* updatePlayer on its own: a player is created in one of the arenas below  *)
(* and stepped at most MaxSteps times with any intent and any of the        *)
(* elapsed times of PlayerDTs (a frame of 0, the longest frame of the game  *)
(* loop, and a full second as in the unit tests).                           *)
(***************************************************************************)
\* A maze of the size of level 1 whose tile at (col, row) is wall where
\* isWall(col, row) holds and floor elsewhere, without a tunnel row.
WalledMaze(isWall(_, _)) ==
    [tiles |-> [row \in 0..30 |->
                  [col \in 0..27 |-> IF isWall(col, row) THEN "wall" ELSE "floor"]],
     cols |-> 28, rows |-> 31, tunnelRow |-> -1]

EverywhereWall(col, row) == TRUE
WallAboveRow15(col, row) == row < 15

TestBounds == [width |-> Px(560), height |-> Px(620)]

\* The start, the bounds and the blocking predicate of each arena: the open
\* field and walls everywhere as in the unit tests, walls on the rows above
\* the start (the unit tests' wallAbove, tile by tile), and the level-1 maze
\* from the spawn and from the corridor next to the junction left of it.
Arenas ==
    { [x |-> Px(280), y |-> Px(310), bounds |-> TestBounds, w |-> OpenField],
      [x |-> Px(280), y |-> Px(310), bounds |-> TestBounds,
       w |-> wallFn(WalledMaze(EverywhereWall), -1, Px(560))],
      [x |-> Px(280), y |-> Px(310), bounds |-> TestBounds,
       w |-> wallFn(WalledMaze(WallAboveRow15), -1, Px(560))],
      [x |-> StartX, y |-> StartY,
       bounds |-> [width |-> CanvasWidth, height |-> Level1Maze.rows * TILE],
       w |-> wallFn(Level1Maze, Level1Maze.tunnelRow, CanvasWidth)],
      [x |-> Center(10), y |-> StartY,
       bounds |-> [width |-> CanvasWidth, height |-> Level1Maze.rows * TILE],
       w |-> wallFn(Level1Maze, Level1Maze.tunnelRow, CanvasWidth)] }

PlayerDTs == {0, MaxDt, 10 * MaxDt}

\* How many steps of updatePlayer a player takes.
MaxSteps == 3

PlayerInit ==
    /\ Starts(NewGame)
    /\ scriptPos = 0
    /\ freeUsed = 0
    /\ \E a \in Arenas :
          call = [fn |-> "updatePlayer", bounds |-> a.bounds, w |-> a.w,
                  before |-> createPlayer(a.x, a.y), after |-> createPlayer(a.x, a.y),
                  dir |-> NoDir, dt |-> 0, steps |-> 0]

PlayerCall ==
    /\ call.fn = "updatePlayer"
    /\ call.steps < MaxSteps
    /\ \E dir \in Intents, dt \in PlayerDTs :
          call' = [call EXCEPT !.before = call.after,
                               !.after = updatePlayer(call.after, dir, dt,
                                                      call.bounds, call.w),
                               !.dir = dir, !.dt = dt, !.steps = call.steps + 1]
    /\ UNCHANGED gameVars

PlayerSpec == PlayerInit /\ [][PlayerCall]_vars

(***************************************************************************)
(* The two step functions side by side: updatePlayer over the arenas above *)
(* and updateGhost called once on a ghost made as the unit tests make one: *)
(* createGhost with mode, dir and timers overridden, on the centre of a    *)
(* non-wall tile of level 1 or three pixels before it, with the player at  *)
(* its spawn.  Only a ghost in the pen has a pen timer, only a frightened   *)
(* one a frightened timer and a draw; the phase matters to an exiting or a *)
(* frightened ghost and the personality to a roaming one.                  *)
(***************************************************************************)
GhostOffsets == {0, Px(3)}

\* No frame, a short frame that stays before the next centre, a capped frame.
GhostDTs == {0, MaxDt \div 5, MaxDt}

PenTimers == {0, Sec100(5), Sec100(300)}

FrightenedTimers == {Sec100(5), FRIGHTENED_DURATION}

GhostAt(cell, dir, back, personality, mode, penTimer, frightenedTimer) ==
    LET at == Advance(Center(cell[1]), Center(cell[2]), dir, -back)
    IN  [createGhost(at.x, at.y, personality, penTimer)
           EXCEPT !.mode = mode, !.dir = dir, !.frightenedTimer = frightenedTimer]

StepInit ==
    /\ Starts(NewGame)
    /\ scriptPos = 0
    /\ freeUsed = 0
    /\ \/ \E a \in Arenas :
             call = [fn |-> "updatePlayer", bounds |-> a.bounds, w |-> a.w,
                     before |-> createPlayer(a.x, a.y), after |-> createPlayer(a.x, a.y),
                     dir |-> NoDir, dt |-> 0, steps |-> 0]
       \/ \E cell \in PickCells, dir \in DirSet, back \in GhostOffsets,
              personality \in {"blinky", "pinky", "clyde"}, mode \in GhostModes,
              penTimer \in PenTimers, frightenedTimer \in FrightenedTimers \cup {0},
              dt \in GhostDTs, chasing \in BOOLEAN, rnd \in RandomDraw :
             /\ mode # "pen" => penTimer = 0
             /\ frightenedTimer > 0 <=> mode = "frightened"
             /\ mode # "frightened" => rnd = 0
             /\ mode \notin {"frightened", "exiting"} => chasing
             /\ mode \notin {"scatter", "chase"} => personality = "blinky"
             /\ call = [fn |-> "updateGhost",
                        ghost |-> GhostAt(cell, dir, back, personality, mode,
                                          penTimer, frightenedTimer),
                        playerX |-> StartX, playerY |-> StartY, playerFacing |-> "left",
                        dt |-> dt, isChasing |-> chasing, rnd |-> rnd,
                        result |-> << >>]

GhostCall ==
    /\ call.fn = "updateGhost"
    /\ call.result = << >>
    /\ call' = [call EXCEPT !.result =
                   << updateGhost(call.ghost, call.playerX, call.playerY,
                                  call.playerFacing, call.dt, Level1Maze,
                                  call.isChasing, call.rnd) >>]
    /\ UNCHANGED gameVars

StepNext == PlayerCall \/ GhostCall

StepSpec == StepInit /\ [][StepNext]_vars

(***************************************************************************)
(* updatePlayer at the edges: players created as the clamping tests create *)
(* them, on, next to and beyond the bounds, in the open field, with the    *)
(* bounds of the tests and with xMin and xMax overridden as for the tunnel *)
(* row.                                                                    *)
(***************************************************************************)
EdgeXs == {Px(-2), Px(1), Px(280), Px(559), Px(562)}

EdgeYs == {Px(-2), Px(1), Px(310), Px(619)}

EdgeBounds ==
    { TestBounds,
      [width |-> Px(560), height |-> Px(620), xMin |-> Px(-20)],
      [width |-> Px(560), height |-> Px(620), xMax |-> Px(560) + Px(20)],
      [width |-> Px(560), height |-> Px(620), xMin |-> -TILE, xMax |-> Px(560) + TILE] }

\* How many steps of updatePlayer a player at the edge takes.
MaxEdgeSteps == 2

EdgeInit ==
    /\ Starts(NewGame)
    /\ scriptPos = 0
    /\ freeUsed = 0
    /\ \E x \in EdgeXs, y \in EdgeYs, bounds \in EdgeBounds :
          call = [fn |-> "updatePlayer", bounds |-> bounds, w |-> OpenField,
                  before |-> createPlayer(x, y), after |-> createPlayer(x, y),
                  dir |-> NoDir, dt |-> 0, steps |-> 0]

EdgeCall ==
    /\ call.fn = "updatePlayer"
    /\ call.steps < MaxEdgeSteps
    /\ \E dir \in Intents, dt \in PlayerDTs :
          call' = [call EXCEPT !.before = call.after,
                               !.after = updatePlayer(call.after, dir, dt,
                                                      call.bounds, call.w),
                               !.dir = dir, !.dt = dt, !.steps = call.steps + 1]
    /\ UNCHANGED gameVars

EdgeSpec == EdgeInit /\ [][EdgeCall]_vars

(***************************************************************************)
(* The small pure functions on their own: wrapTunnels, eatDots, getTile    *)
(* and the two passability tests.  The arguments are drawn at the start    *)
(* and the one step of each function applies it.                           *)
(***************************************************************************)
\* wrapTunnels: players made as its tests make them, on and around the two
\* edges of the canvas, on the tunnel row, at its borders and off it.
WrapXs == {Px(-20), Px(-4), Px(-2), -1, 0, Px(10), Px(280),
           Px(560) - 1, Px(560), Px(560) + Px(20)}

WrapYs == {Px(90), Center(13), 14 * TILE - 1, 14 * TILE, Center(14),
           15 * TILE - 1, 15 * TILE}

WrapPlayer(x, y, dir) ==
    [createPlayer(x, y) EXCEPT !.currentDir = dir,
                               !.facing = IF dir = NoDir THEN "right" ELSE dir,
                               !.isMoving = dir # NoDir,
                               !.mouthTimer = IF dir = NoDir THEN 0 ELSE Sec100(10)]

\* eatDots: up to MaxDots dots drawn from five, at 5 px (a 3-4-5 triangle),
\* nearer and farther from the origin, one a pellet.
DotPool ==
    { [x |-> 0, y |-> 0, isPellet |-> FALSE],
      [x |-> Px(3), y |-> Px(3), isPellet |-> FALSE],
      [x |-> Px(3), y |-> Px(4), isPellet |-> TRUE],
      [x |-> Px(4), y |-> Px(4), isPellet |-> FALSE],
      [x |-> Px(20), y |-> 0, isPellet |-> FALSE] }

MaxDots == 3

DotLists == UNION {[1..n -> DotPool] : n \in 0..MaxDots}

EatRadii == {0, Px(5), Px(8)}

\* getTile: the level-1 layout and a layout with rows of unequal length and
\* a character that is no tile.
RaggedLayout ==
    [tiles |-> << <<"#", ".", "o", "-", " ">>,
                  << >>,
                  <<".", "x", "#">> >>,
     tunnelRow |-> 1]

LayoutOf(name) == IF name = "level1" THEN LEVEL_1 ELSE RaggedLayout

MazeInit ==
    /\ Starts(NewGame)
    /\ scriptPos = 0
    /\ freeUsed = 0
    /\ \/ \E x \in WrapXs, y \in WrapYs, dir \in {NoDir, "left", "right"},
              tunnelRow \in {14, 4}, canvasWidth \in {Px(560), Px(280)} :
             call = [fn |-> "wrapTunnels", player |-> WrapPlayer(x, y, dir),
                     tunnelRow |-> tunnelRow, canvasWidth |-> canvasWidth,
                     result |-> << >>]
       \/ \E list \in DotLists, px \in {0, Px(1)}, r \in EatRadii :
             call = [fn |-> "eatDots", dots |-> list, playerX |-> px, playerY |-> 0,
                     eatRadius |-> r, result |-> << >>]
       \/ \E name \in {"level1", "ragged"}, col \in -2..29, row \in -2..32 :
             call = [fn |-> "getTile", layout |-> name, col |-> col, row |-> row,
                     result |-> << >>]
       \/ \E col \in -1..28, off \in {0, TILE \div 2, TILE - 1}, row \in -1..31,
              mode \in GhostModes :
             call = [fn |-> "isWallAt", x |-> col * TILE + off, y |-> Center(row),
                     mode |-> mode, result |-> << >>]

WrapCall ==
    /\ call.fn = "wrapTunnels"
    /\ call.result = << >>
    /\ call' = [call EXCEPT !.result =
                   << wrapTunnels(call.player, call.tunnelRow, call.canvasWidth) >>]
    /\ UNCHANGED gameVars

EatCall ==
    /\ call.fn = "eatDots"
    /\ call.result = << >>
    /\ call' = [call EXCEPT !.result =
                   << eatDots(call.dots, call.playerX, call.playerY, call.eatRadius) >>]
    /\ UNCHANGED gameVars

TileCall ==
    /\ call.fn = "getTile"
    /\ call.result = << >>
    /\ call' = [call EXCEPT !.result =
                   << getTile(createMaze(LayoutOf(call.layout)), call.col, call.row) >>]
    /\ UNCHANGED gameVars

\* isWallAt for the player and ghostIsWallAt for a ghost, on the same pixel.
WallCall ==
    /\ call.fn = "isWallAt"
    /\ call.result = << >>
    /\ call' = [call EXCEPT !.result =
                   << isWallAt(Level1Maze, call.x, call.y),
                      ghostIsWallAt(Level1Maze, call.x, call.y, call.mode) >>]
    /\ UNCHANGED gameVars

MazeNext == WrapCall \/ EatCall \/ TileCall \/ WallCall

MazeSpec == MazeInit /\ [][MazeNext]_vars

(***************************************************************************)
(* Rounds at a power pellet                                                *)
(***************************************************************************)
\* The tiles the player passes on the way from its start to the tile above
\* the lower left power pellet: left along row 23, up to row 22, left to
\* column 6, up to row 20, left to column 1 and down.
RouteToPellet ==
    << <<12, 23>>, <<11, 23>>, <<10, 23>>, <<9, 23>>, <<9, 22>>, <<8, 22>>,
       <<7, 22>>, <<6, 22>>, <<6, 21>>, <<6, 20>>, <<5, 20>>, <<4, 20>>,
       <<3, 20>>, <<2, 20>>, <<1, 20>>, <<1, 21>> >>

\* The dots left after the pickup at the centre of every tile of a route.
RECURSIVE EatAlong(_, _)
EatAlong(all, route) ==
    IF route = << >> THEN all
    ELSE EatAlong(eatDots(all, Center(route[1][1]), Center(route[1][2]), PACMAN_RADIUS),
                  Tail(route))

\* How far below the centre of the last tile of the route the player is: from
\* 3 pixels above it the next capped frame does not reach the pellet yet.
PlayerLeads == {-Px(3), 0, Px(5)}

\* How far right of the pellet's centre a ghost coming along row 22 is.
GhostGaps == {Px(18), Px(26)}

\* The player heading down towards the pellet.
PlayerAtPellet(lead) ==
    [createPlayer(Center(1), Center(21) + lead)
       EXCEPT !.facing = "down", !.currentDir = "down", !.isMoving = TRUE]

\* The states of a ghost heading left along row 22 towards the pellet: in the
\* mode of the phase, frightened with the timer about to run out or with
\* 3 s left, or eaten.
GhostsAtPellet(personality, chasing) ==
    {GhostAt(<<1, 22>>, "left", gap, personality, m[1], 0, m[2]) :
       gap \in GhostGaps,
       m \in {<<IF chasing THEN "chase" ELSE "scatter", 0>>, <<"frightened", 5>>,
              <<"frightened", Sec100(300)>>, <<"eaten", 0>>}}

\* The third ghost roams in the upper right corner.
GhostFarAway(chasing) ==
    GhostAt(<<21, 1>>, "right", Px(15), "clyde",
            IF chasing THEN "chase" ELSE "scatter", 0, 0)

\* The phase: chase just begun, or scatter about to end.
Phases == {<<TRUE, 0>>, <<FALSE, SCATTER_DURATION - 5>>}

\* A round of level 1 in which the player is about to take the lower left
\* power pellet while two ghosts come at it along row 22.
PelletRound(lead, g1, g2, phase) ==
    LET left == EatAlong(Level1Dots, RouteToPellet)
    IN  [NewGame EXCEPT !.player = PlayerAtPellet(lead),
                        !.ghosts = <<g1, g2, GhostFarAway(phase[1])>>,
                        !.dots = left,
                        !.score = Len(Level1Dots) - Len(left),
                        !.isChasing = phase[1],
                        !.modeTimer = phase[2]]

PelletInit ==
    /\ \E lead \in PlayerLeads, phase \in Phases :
         \E g1 \in GhostsAtPellet("blinky", phase[1]),
            g2 \in GhostsAtPellet("pinky", phase[1]) :
            Starts(PelletRound(lead, g1, g2, phase))
    /\ scriptPos = 0
    /\ freeUsed = 0
    /\ call = NoCall

PelletSpec == PelletInit /\ [][FreeTick]_vars


(***************************************************************************)
(* A ghost on its way to and out of the pen                                *)
(***************************************************************************)
\* The tiles next to a tile.
Neighbours(cell) ==
    {<<cell[1] + 1, cell[2]>>, <<cell[1] - 1, cell[2]>>,
     <<cell[1], cell[2] + 1>>, <<cell[1], cell[2] - 1>>}

\* The tiles of the grid a ghost in the given mode can be on, starting from a
\* set of them.
RECURSIVE TilesWithin(_, _)
TilesWithin(reached, mode) ==
    LET more == {c \in UNION {Neighbours(r) : r \in reached} :
                   /\ c[1] \in 0..(Level1Maze.cols - 1)
                   /\ c[2] \in 0..(Level1Maze.rows - 1)
                   /\ ~ghostIsWallAt(Level1Maze, Center(c[1]), Center(c[2]), mode)}
    IN  IF more \subseteq reached THEN reached
        ELSE TilesWithin(reached \cup more, mode)

\* The tiles a frightened ghost can be on: those it reaches from the pen exit.
RoamTiles == TilesWithin({<<13, 11>>}, "frightened")

\* The tile ahead of a tile.
TileAhead(cell, dir) ==
    CASE dir = "left" -> <<cell[1] - 1, cell[2]>>
      [] dir = "right" -> <<cell[1] + 1, cell[2]>>
      [] dir = "up" -> <<cell[1], cell[2] - 1>>
      [] dir = "down" -> <<cell[1], cell[2] + 1>>

\* The ticks of a walk: capped frames of 0.1 s.
WalkDTs == {MaxDt}

\* A ghost eaten on its way to the centre of a tile, or on the centre and
\* heading for the next tile; and the three ghosts as they are created.
WalkInit ==
    /\ Starts(NewGame)
    /\ scriptPos = 0
    /\ freeUsed = 0
    /\ \/ \E cell \in RoamTiles, dir \in DirSet, back \in GhostOffsets :
             /\ back > 0 => TileAhead(cell, oppositeDir(dir)) \in RoamTiles
             /\ back = 0 => TileAhead(cell, dir) \in RoamTiles
             /\ call = [fn |-> "walk", began |-> "eaten",
                        ghost |-> GhostAt(cell, dir, back, "blinky", "eaten", 0, 0),
                        chose |-> << >>, earlier |-> << >>]
       \/ \E i \in DOMAIN createGhosts :
             call = [fn |-> "walk", began |-> "pen", ghost |-> createGhosts[i],
                     chose |-> << >>, earlier |-> << >>]

\* A tick of a ghost that is eaten, in the pen or exiting: updateGhost and the
\* tunnel wrap, as in Game.update.  chose is the tile centre at which the
\* tick chose a direction, earlier that of the tick before, began the mode
\* in which the walk began.
WalkStep ==
    /\ call.fn = "walk"
    /\ call.ghost.mode \in {"eaten", "pen", "exiting"}
    /\ \E dt \in WalkDTs,
          chasing \in BOOLEAN :
          \E stepped \in {updateGhost(call.ghost, StartX, StartY, "left", dt,
                                      Level1Maze, chasing, 0)} :
             call' = [call EXCEPT
                        !.ghost = wrapGhostTunnel(stepped, Level1Maze.tunnelRow,
                                                  CanvasWidth),
                        !.chose = IF call.ghost.mode = "pen" THEN << >>
                                  ELSE crossingOf(call.ghost, dt),
                        !.earlier = call.chose]
    /\ UNCHANGED gameVars

\* Ticks with dt > 0 keep occurring.
WalkSpec == WalkInit /\ [][WalkStep]_vars /\ WF_vars(WalkStep)



(***************************************************************************)
(* Properties of the round                                                 *)
(***************************************************************************)
GhostIds == 1..3
Roaming == {"scatter", "chase"}
PhaseMode(chasing) == IF chasing THEN "chase" ELSE "scatter"

\* update has been called.
Ticked == last.branch # "none"

\* A tick that reached the pickup: none of the gates of Game.update held.
PlayedTick == last.branch \in {"play", "cleared"}

\* The squared distance between the player and ghost g.
PlayerDistSq(p, g) == DistSq(p.x, p.y, g.x, g.y)

\* The arrows of the mode diagram.
ModeArrow(from, to) ==
    \/ to = "exiting" /\ from = "pen"
    \/ to \in Roaming /\ from \in {"exiting", "frightened", "scatter", "chase"}
    \/ to = "frightened" /\ from \in {"scatter", "chase", "frightened"}
    \/ to = "eaten" /\ from = "frightened"
    \/ to = "pen" /\ from = "eaten"

\* C1: every mode assignment of a tick follows the mode diagram.  The modes a
\* ghost passes through in one call of update start at the mode it had and
\* end at the mode it has; each change along the way is an arrow of the
\* diagram; a change to eaten is the collision step's, from frightened, with
\* the ghost inside the collision threshold; a reset puts every ghost in the
\* pen; a tick that assigns no mode leaves every mode as it was.
C1_ModeDiagram ==
    \A i \in GhostIds :
       IF last.trail = << >>
       THEN ghosts[i].mode = prev.ghosts[i].mode
       ELSE LET t == last.trail[i]
                n == Len(t)
            IN  /\ t[1] = prev.ghosts[i].mode
                /\ t[n] = ghosts[i].mode
                /\ IF last.branch \in {"respawnSet", "levelNext"}
                   THEN t[n] = "pen"
                   ELSE \A k \in 1..(n - 1) :
                          t[k + 1] # t[k] =>
                            /\ ModeArrow(t[k], t[k + 1])
                            /\ t[k + 1] = "eaten" =>
                                 /\ last.branch = "play"
                                 /\ k = n - 1
                                 /\ PlayerDistSq(player, last.stepped[i])
                                      < COLLISION_DIST * COLLISION_DIST

\* A frightened ghost was eaten in the collision step of the last tick.
C1_Witness ==
    /\ last.branch = "play"
    /\ \E i \in GhostIds : /\ last.trail[i][6] = "frightened"
                           /\ last.trail[i][7] = "eaten"
                           /\ ghosts[i].mode = "eaten"

\* C2: on the tick in which the phase flips, a ghost in scatter changes to
\* chase and a ghost in chase changes to scatter, so that after the flip every
\* ghost in scatter or chase has the mode of the global phase.
C2_FlipSwapsRoamingModes ==
    (last.branch = "play" /\ last.flipped) =>
       \A i \in GhostIds :
          /\ last.overridden[i].mode \in Roaming =>
               last.stepped[i].mode = PhaseMode(isChasing)
          /\ ghosts[i].mode \in Roaming => ghosts[i].mode = PhaseMode(isChasing)

\* C3: a frightened ghost whose timer reaches 0 in updateGhost takes the mode
\* of the phase passed to the step, never eaten; one whose timer is still
\* positive after the decrement stays frightened through the step.
C3_FrightenedExpiry ==
    last.branch = "play" =>
       \A i \in GhostIds :
          LET g == last.overridden[i]
              h == last.stepped[i]
              t == last.trail[i]
          IN  (g.mode = "frightened" /\ g.frightenedTimer > 0) =>
                 IF g.frightenedTimer - last.dt <= 0
                 THEN /\ h.frightenedTimer = 0
                      /\ \A k \in 3..6 : t[k] = PhaseMode(isChasing)
                      /\ h.mode = PhaseMode(isChasing)
                 ELSE /\ h.frightenedTimer = g.frightenedTimer - last.dt
                      /\ \A k \in 3..6 : t[k] = "frightened"
                      /\ h.mode = "frightened"

\* A frightened ghost's timer ran out in the last tick during a scatter phase.
C3_Witness ==
    /\ last.branch = "play"
    /\ ~isChasing
    /\ \E i \in GhostIds : /\ last.overridden[i].mode = "frightened"
                           /\ last.stepped[i].frightenedTimer = 0
                           /\ last.stepped[i].mode = "scatter"

\* C4: updateGhost leaves x, y and dir of a ghost in the pen as they were,
\* sets penTimer to max(0, penTimer - dt) and makes the mode exiting exactly
\* when penTimer has reached 0.
C4_PenWait ==
    last.branch = "play" =>
       \A i \in GhostIds :
          LET g == last.overridden[i]
              h == last.stepped[i]
          IN  g.mode = "pen" =>
                 /\ h.x = g.x /\ h.y = g.y /\ h.dir = g.dir
                 /\ h.penTimer = Max(0, g.penTimer - last.dt)
                 /\ h.mode = IF h.penTimer = 0 THEN "exiting" ELSE "pen"

\* In the last tick one ghost's pen timer ran out, with less than dt left on
\* it, while another ghost went on waiting.
C4_Witness ==
    /\ last.branch = "play"
    /\ \E i, j \in GhostIds :
         /\ last.overridden[i].mode = "pen" /\ last.stepped[i].mode = "exiting"
         /\ last.overridden[i].penTimer < last.dt
         /\ last.overridden[j].mode = "pen" /\ last.stepped[j].mode = "pen"

\* C5: when the pickup removes a power pellet, the override leaves every
\* ghost that was in scatter, chase or frightened frightened with the full
\* 8 s on its timer and every ghost in pen, exiting or eaten as it was; when
\* the pickup removes no pellet the override changes no ghost.
C5_PelletOverride ==
    PlayedTick =>
       \A i \in GhostIds :
          LET g == prev.ghosts[i]
              o == last.overridden[i]
          IN  IF CountPellets(dots) < CountPellets(prev.dots)
              THEN IF g.mode \in {"scatter", "chase", "frightened"}
                   THEN /\ o.mode = "frightened"
                        /\ o.frightenedTimer = Sec100(800)
                        /\ o = [g EXCEPT !.mode = "frightened",
                                         !.frightenedTimer = Sec100(800)]
                   ELSE o = g
              ELSE o = g

\* The last tick's pickup removed a power pellet while one ghost was roaming
\* and another was in the pen, leaving it or eaten.
C5_Witness ==
    /\ last.branch = "play"
    /\ last.pellet
    /\ \E i \in GhostIds : last.trail[i][1] \in Roaming
    /\ \E i \in GhostIds : last.trail[i][1] \in {"pen", "exiting", "eaten"}
                           /\ last.overridden[i].mode = last.trail[i][1]

\* A ghost that the collision scan of the last tick found lethal and within
\* 16 px of the player.
LethalContact(i) ==
    /\ last.stepped[i].mode \in Roaming
    /\ PlayerDistSq(player, last.stepped[i]) < Px(16) * Px(16)

\* C6: the player starts dying only in the collision scan of a tick, and only
\* with a ghost in scatter or chase at a squared distance below 16^2; a ghost
\* in pen, exiting, eaten or frightened never makes the player die.
C6_DeathNeedsLethalContact ==
    (~prev.player.dying /\ player.dying) =>
       /\ last.branch = "play"
       /\ \E i \in GhostIds : LethalContact(i)

\* The player started dying in the last tick with a ghost that is not lethal
\* inside the threshold as well.
C6_Witness ==
    /\ last.branch = "play"
    /\ player.dying
    /\ \E i \in GhostIds :
          /\ last.stepped[i].mode \notin Roaming
          /\ PlayerDistSq(player, last.stepped[i]) < Px(16) * Px(16)

\* C7: a tick registers at most one death and a death sequence takes exactly
\* one life: the contact tick sets dying with progress 0 and takes no life,
\* however many lethal ghosts are in contact, and a tick takes a life only
\* from a dying player, one life, ending the sequence.
C7_OneDeathPerContact ==
    /\ lives \in {prev.lives, prev.lives - 1}
    /\ (~prev.player.dying /\ player.dying) =>
          /\ lives = prev.lives
          /\ player.deathProgress = 0
    /\ lives = prev.lives - 1 =>
          /\ prev.player.dying
          /\ ~player.dying \/ gameOver

\* Two lethal ghosts were inside the threshold when the player started dying.
C7_Witness ==
    /\ last.branch = "play"
    /\ player.dying
    /\ \E i, j \in GhostIds : i # j /\ LethalContact(i) /\ LethalContact(j)

\* C8: on a tick of the death animation lives is unchanged while the
\* progress stays below 1; on the tick it reaches 1 lives decreases by 1 and
\* then either the game is over (no life left) or the respawn freeze starts
\* and the player and the ghosts are back at their spawn states.
C8_DeathSequence ==
    (Ticked /\ ~prev.gameOver /\ ~prev.levelComplete /\ prev.player.dying) =>
       LET progress == Min(Sec100(120), prev.player.deathProgress + last.dt)
       IN  IF progress < Sec100(120)
           THEN /\ lives = prev.lives
                /\ player.dying
                /\ player.deathProgress = progress
                /\ ~gameOver
                /\ respawnTimer = prev.respawnTimer
           ELSE /\ lives = prev.lives - 1
                /\ IF lives = 0
                   THEN gameOver
                   ELSE /\ ~gameOver
                        /\ respawnTimer = Sec100(150)
                        /\ ~player.dying
                        /\ player.currentDir = NoDir
                        /\ player.x = StartX /\ player.y = StartY
                        /\ player = NewGame.player
                        /\ \A i \in GhostIds :
                              /\ ghosts[i].mode = "pen"
                              /\ ghosts[i].penTimer
                                   = <<Sec100(100), Sec100(400), Sec100(700)>>[i]
                        /\ ghosts = NewGame.ghosts

\* The death animation ended with the last life.
C8_Witness ==
    /\ last.branch = "gameOverSet"
    /\ gameOver
    /\ lives = 0

\* C9: a tick taken while respawnTimer > 0, or while levelComplete is set and
\* its timer has not run out, changes nothing but that timer.
C9_FrozenTick ==
    (Ticked /\ (prev.respawnTimer > 0
                  \/ (prev.levelComplete /\ levelCompleteTimer > 0))) =>
       /\ player = prev.player
       /\ ghosts = prev.ghosts
       /\ dots = prev.dots
       /\ score = prev.score /\ lives = prev.lives /\ level = prev.level
       /\ fruit = prev.fruit /\ fruitSpawnCount = prev.fruitSpawnCount
       /\ initialDotCount = prev.initialDotCount
       /\ isChasing = prev.isChasing /\ modeTimer = prev.modeTimer
       /\ gameOver = prev.gameOver /\ levelComplete = prev.levelComplete
       /\ IF prev.levelComplete
          THEN /\ levelCompleteTimer = prev.levelCompleteTimer - last.dt
               /\ respawnTimer = prev.respawnTimer
          ELSE /\ respawnTimer = Max(0, prev.respawnTimer - last.dt)
               /\ levelCompleteTimer = prev.levelCompleteTimer

\* A tick of the respawn freeze was taken with a direction held.
C9_Witness ==
    /\ last.branch = "respawn"
    /\ last.intent # NoDir
    /\ last.dt > 0
    /\ respawnTimer > 0

\* C10: the tick whose pickup empties the dots sets levelComplete and starts
\* the celebration timer; the tick on which that timer runs out raises the
\* level by 1, rebuilds the dots to their number at game start, clears the
\* fruit and its spawn counter, resets player and ghosts to spawn and the
\* phase to chase with timer 0, and leaves score and lives as they were.
C10_LevelTransition ==
    /\ (Len(prev.dots) > 0 /\ Len(dots) = 0) =>
          /\ levelComplete
          /\ levelCompleteTimer = Sec100(300)
          /\ level = prev.level
    /\ (Ticked /\ ~prev.gameOver /\ prev.levelComplete /\ levelCompleteTimer = 0) =>
          /\ ~levelComplete
          /\ level = prev.level + 1
          /\ Len(dots) = Len(NewGame.dots)
          /\ dots = NewGame.dots
          /\ fruit = << >>
          /\ fruitSpawnCount = 0
          /\ player = NewGame.player
          /\ ghosts = NewGame.ghosts
          /\ isChasing = NewGame.isChasing
          /\ modeTimer = 0
          /\ score = prev.score
          /\ lives = prev.lives

\* The celebration ended: the second level starts with the score of the
\* first and with the dots rebuilt.
C10_Witness ==
    /\ last.branch = "levelNext"
    /\ level = 2
    /\ score > 0
    /\ Len(dots) = Len(NewGame.dots)

\* The whole round is as the last call of update found it.
RoundUnchanged ==
    /\ player = prev.player /\ ghosts = prev.ghosts /\ dots = prev.dots
    /\ score = prev.score /\ lives = prev.lives /\ level = prev.level
    /\ fruit = prev.fruit /\ fruitSpawnCount = prev.fruitSpawnCount
    /\ initialDotCount = prev.initialDotCount
    /\ respawnTimer = prev.respawnTimer /\ gameOver = prev.gameOver
    /\ levelComplete = prev.levelComplete
    /\ levelCompleteTimer = prev.levelCompleteTimer
    /\ isChasing = prev.isChasing /\ modeTimer = prev.modeTimer

\* C11: lives is never negative, gameOver is set exactly when lives is 0, and
\* once gameOver is set a tick changes nothing of the round.
C11_LivesAndGameOver ==
    /\ lives \in Nat
    /\ gameOver <=> lives = 0
    /\ (Ticked /\ prev.gameOver) => RoundUnchanged

\* A tick with time elapsed and a direction held was taken after the game
\* was over.
C11_Witness ==
    /\ last.branch = "gameOver"
    /\ last.dt > 0
    /\ last.intent # NoDir
    /\ lives = 0

\* The frightened ghosts that the collision scan of the last tick ate.
EatenInScan ==
    IF last.branch = "play"
    THEN {i \in GhostIds : last.stepped[i].mode = "frightened" /\ ghosts[i].mode = "eaten"}
    ELSE {}

\* What the last tick added to the score beyond the collectibles removed and
\* the ghosts eaten.
FruitGain ==
    score - prev.score - (Len(prev.dots) - Len(dots)) - 200 * Cardinality(EatenInScan)

\* The player is within reach of the fruit's spot.
AtFruitSpot ==
    DistSq(player.x, player.y, StartX, StartY) < (Px(10) + Px(10)) * (Px(10) + Px(10))

\* C12: score is a natural number that no tick decreases.  A tick of play
\* adds 1 per collectible removed, 200 per frightened ghost eaten and, if it
\* collects the fruit, the points of the fruit of the level; every other tick
\* (death animation, respawn, level transition, game over) leaves it as it was.
C12_Score ==
    /\ score \in Nat
    /\ score >= prev.score
    /\ ~PlayedTick => score = prev.score
    /\ PlayedTick =>
          \/ FruitGain = 0
          \/ /\ FruitGain = FRUIT_POINTS[LEVEL_FRUIT[Min(level, 5)]]
             /\ fruit = << >>
             /\ prev.fruit # << >> \/ fruitSpawnCount = prev.fruitSpawnCount + 1
             /\ AtFruitSpot

\* The last tick collected the fruit.
C12_Witness ==
    /\ PlayedTick
    /\ FruitGain > 0
    /\ prev.fruit # << >>
    /\ fruit = << >>

\* The tile that holds the point (x, y) of the level-1 maze.
TileAt(x, y) == getTile(Level1Maze, FloorDiv(x, TILE), FloorDiv(y, TILE))

\* The point (x, y) is on the tunnel row beyond the left or the right edge.
OffGridOnTunnelRow(x, y) ==
    /\ FloorDiv(y, TILE) = Level1Maze.tunnelRow
    /\ x < 0 \/ x >= CanvasWidth

\* C13: the centre of the player is never in a wall tile nor in a door tile,
\* points of the tunnel row beyond the edges of the grid excepted.
C13_PlayerOutsideWalls ==
    \/ OffGridOnTunnelRow(player.x, player.y)
    \/ TileAt(player.x, player.y) \notin {"wall", "door"}

\* In the last tick the player, heading for a wall one tile ahead, was held
\* where it was.
C13_Witness ==
    /\ last.branch = "play"
    /\ last.dt > 0
    /\ player.currentDir # NoDir
    /\ ~player.isMoving
    /\ TileAt(AheadX(player.x, player.currentDir), AheadY(player.y, player.currentDir))
         = "wall"

\* C14: the centre of a ghost is never in a wall tile, and the centre of a
\* ghost in scatter, chase or frightened is never in a door tile.
C14_GhostsOutsideWalls ==
    \A i \in GhostIds :
       /\ TileAt(ghosts[i].x, ghosts[i].y) # "wall"
       /\ ghosts[i].mode \in {"scatter", "chase", "frightened"} =>
            TileAt(ghosts[i].x, ghosts[i].y) # "door"

\* A ghost on its way out of the pen is in a door tile while another ghost
\* roams the maze.
C14_Witness ==
    /\ \E i \in GhostIds : /\ ghosts[i].mode = "exiting"
                           /\ TileAt(ghosts[i].x, ghosts[i].y) = "door"
    /\ \E j \in GhostIds : ghosts[j].mode \in {"scatter", "chase", "frightened"}

(***************************************************************************)
(* pickDirection on its own                                                *)
(***************************************************************************)
Picked == call.fn = "pickDirection" /\ call.result # << >>

\* The tile one step ahead of the calling ghost in direction d blocks its mode.
AheadBlocked(d) ==
    LET tile == TileAt(AheadX(call.x, d), AheadY(call.y, d))
    IN  \/ tile = "wall"
        \/ tile = "door" /\ call.mode \in {"scatter", "chase", "frightened"}

PickCandidates == {d \in DirSet \ {oppositeDir(call.currentDir)} : ~AheadBlocked(d)}

\* The squared distance from the centre one tile ahead in direction d to the target.
AheadDistSq(d) ==
    DistSq(AheadX(call.x, d), AheadY(call.y, d), call.targetX, call.targetY)

\* The place of d in the fixed order up, down, left, right.
DirOrder(d) == CHOOSE k \in 1..4 : Directions[k] = d

Closest == {d \in PickCandidates : \A o \in PickCandidates : AheadDistSq(d) <= AheadDistSq(o)}

FirstClosest == CHOOSE d \in Closest : \A o \in Closest : DirOrder(d) <= DirOrder(o)

\* C15: pickDirection never returns the reverse of currentDir when some
\* non-reverse direction has a non-blocking tile one step ahead under the
\* ghost's mode, and then returns a direction whose tile ahead is not blocking;
\* it returns the reverse exactly when all three non-reverse directions are
\* blocked.
C15_NoReverseUnlessDeadEnd ==
    Picked =>
        /\ PickCandidates # {} => call.result[1] \in PickCandidates
        /\ PickCandidates = {} <=> call.result[1] = oppositeDir(call.currentDir)

\* The way back is open and closer to the target than any candidate, and a
\* chasing ghost is still handed a candidate.
C15_Witness ==
    /\ Picked
    /\ call.mode = "chase"
    /\ PickCandidates # {}
    /\ ~AheadBlocked(oppositeDir(call.currentDir))
    /\ \A d \in PickCandidates : AheadDistSq(oppositeDir(call.currentDir)) < AheadDistSq(d)
    /\ call.result[1] \in PickCandidates

\* C16: in every non-frightened mode pickDirection returns a candidate whose
\* centre one tile ahead has the least squared distance to the target among
\* all candidates, and among the candidates tied at that least distance the
\* first in the order up, down, left, right.
C16_GreedyFirstOfTies ==
    (Picked /\ call.mode # "frightened" /\ PickCandidates # {}) =>
        /\ call.result[1] \in Closest
        /\ call.result[1] = FirstClosest

\* Two candidates are tied at the least distance and the earlier one is returned.
C16_Witness ==
    /\ Picked
    /\ call.mode # "frightened"
    /\ Cardinality(Closest) >= 2
    /\ Cardinality(PickCandidates) = 3
    /\ call.result[1] = FirstClosest

\* C17 as stated: a frightened ghost with two or more candidates is never
\* handed a candidate whose centre one tile ahead is as close to the player as
\* any candidate's, and with exactly one candidate it is handed that one.
C17_NeverAClosestCandidate ==
    (Picked /\ call.mode = "frightened") =>
        /\ Cardinality(PickCandidates) >= 2 => call.result[1] \notin Closest
        /\ Cardinality(PickCandidates) = 1 => PickCandidates = {call.result[1]}

\* C17: a frightened ghost with two or more candidates is never handed the
\* first, in the order up, down, left, right, of the candidates closest to the
\* player (another candidate tied with it can be handed out), and with exactly
\* one candidate it is handed that one.
C17_NeverTheFirstClosest ==
    (Picked /\ call.mode = "frightened") =>
        /\ Cardinality(PickCandidates) >= 2 =>
              /\ call.result[1] \in PickCandidates
              /\ call.result[1] # FirstClosest
        /\ Cardinality(PickCandidates) = 1 => PickCandidates = {call.result[1]}

\* Three candidates, the upper draw, and a candidate that is not closest is
\* handed out.
C17_Witness ==
    /\ Picked
    /\ call.mode = "frightened"
    /\ call.rnd = 1
    /\ Cardinality(PickCandidates) = 3
    /\ call.result[1] \notin Closest

(***************************************************************************)
(* updatePlayer on its own                                                 *)
(***************************************************************************)
Stepped == call.fn = "updatePlayer" /\ call.steps > 0

\* No directional intent has reached the player before the last step.
NeverSteered == call.before.currentDir = NoDir /\ call.before.desiredDir = NoDir

\* The direction the last step tried to turn to: the intent, else the queue.
Requested == IF call.dir # NoDir THEN call.dir ELSE call.before.desiredDir

\* The probes of the requested turn, from the position before the last step.
RequestProbe ==
    tryTurn(call.before.x, call.before.y, call.before.currentDir, Requested, call.w)

RequestGranted == Requested # NoDir /\ RequestProbe.allowed

\* Where the move of the last step starts: the snapped position if a turn
\* was granted, else the position before the step.
MoveStart ==
    IF RequestGranted THEN [x |-> RequestProbe.snapX, y |-> RequestProbe.snapY]
    ELSE [x |-> call.before.x, y |-> call.before.y]

\* The probe set for the direction after the last step is clear at the destination.
DestinationClear ==
    canMoveInDir(MoveStart.x, MoveStart.y, call.after.currentDir, SPEED * call.dt, call.w)

Destination == Advance(MoveStart.x, MoveStart.y, call.after.currentDir, SPEED * call.dt)

InBounds(p) ==
    /\ p.x >= PACMAN_RADIUS /\ p.x <= call.bounds.width - PACMAN_RADIUS
    /\ p.y >= PACMAN_RADIUS /\ p.y <= call.bounds.height - PACMAN_RADIUS

Clamped(p) ==
    [x |-> Max(PACMAN_RADIUS, Min(call.bounds.width - PACMAN_RADIUS, p.x)),
     y |-> Max(PACMAN_RADIUS, Min(call.bounds.height - PACMAN_RADIUS, p.y))]

PositionOf(p) == [x |-> p.x, y |-> p.y]

C20_QueuedTurn ==
    Stepped =>
        /\ (Requested # NoDir /\ ~RequestProbe.allowed) =>
              /\ call.after.currentDir = call.before.currentDir
              /\ call.after.desiredDir = Requested
        /\ (Requested # NoDir /\ RequestProbe.allowed) =>
              /\ call.after.currentDir = Requested
              /\ call.after.desiredDir = NoDir
        /\ Requested = NoDir =>
              /\ call.after.currentDir = call.before.currentDir
              /\ call.after.desiredDir = NoDir

\* A turn refused on an earlier step and kept in the queue is granted on a
\* step with the key released.
C20_Witness ==
    /\ Stepped
    /\ call.dir = NoDir
    /\ call.before.currentDir # NoDir
    /\ call.before.desiredDir # NoDir
    /\ call.before.desiredDir # call.before.currentDir
    /\ call.after.currentDir = call.before.desiredDir
    /\ call.after.desiredDir = NoDir

Horizontal(d) == d = "left" \/ d = "right"

\* The last step asked for a turn onto the other axis.
PerpendicularRequest ==
    /\ call.before.currentDir # NoDir
    /\ Requested # NoDir
    /\ Horizontal(call.before.currentDir) # Horizontal(Requested)

SameAxisRequest ==
    /\ call.before.currentDir # NoDir
    /\ Requested # NoDir
    /\ Horizontal(call.before.currentDir) = Horizontal(Requested)

\* The tile centre nearest to v, the upper one when v is on a tile boundary.
SnapCentre(v) ==
    LET centres == {Center(k) : k \in 0..31}
    IN  CHOOSE c \in centres :
          \A o \in centres :
             Abs(v - c) < Abs(v - o) \/ (Abs(v - c) = Abs(v - o) /\ c >= o)

\* The position before the last step with the off-axis coordinate on its
\* nearest tile centre.
SnappedBefore ==
    IF Horizontal(call.before.currentDir)
    THEN [x |-> SnapCentre(call.before.x), y |-> call.before.y]
    ELSE [x |-> call.before.x, y |-> SnapCentre(call.before.y)]

\* The three probes of the leading edge one pixel ahead of p in direction d.
LeadingProbes(p, d) ==
    CASE d = "right" -> {<<p.x + Px(1) + R, p.y>>, <<p.x + Px(1) + D, p.y - D>>,
                         <<p.x + Px(1) + D, p.y + D>>}
      [] d = "left" -> {<<p.x - Px(1) - R, p.y>>, <<p.x - Px(1) - D, p.y - D>>,
                        <<p.x - Px(1) - D, p.y + D>>}
      [] d = "down" -> {<<p.x, p.y + Px(1) + R>>, <<p.x - D, p.y + Px(1) + D>>,
                        <<p.x + D, p.y + Px(1) + D>>}
      [] d = "up" -> {<<p.x, p.y - Px(1) - R>>, <<p.x - D, p.y - Px(1) - D>>,
                      <<p.x + D, p.y - Px(1) - D>>}

ProbesClear(p, d) == \A q \in LeadingProbes(p, d) : ~Blocks(call.w, q[1], q[2])

\* The travel of the last step from p along the direction it ended with, or none.
TravelFrom(p) ==
    {p, Clamped(Advance(p.x, p.y, call.after.currentDir, SPEED * call.dt))}

\* C21: from each of the four current directions a turn onto the other axis
\* is granted exactly when, with the off-axis coordinate on its nearest tile
\* centre, the three leading-edge probes one pixel ahead in the requested
\* direction are clear; a granted turn travels from the snapped position, a
\* refused one from the unsnapped position, and so does a request on the
\* same axis.
C21_PerpendicularTurnSnaps ==
    Stepped =>
        /\ PerpendicularRequest =>
              /\ call.after.currentDir = Requested <=> ProbesClear(SnappedBefore, Requested)
              /\ ProbesClear(SnappedBefore, Requested) =>
                    /\ PositionOf(call.after) \in TravelFrom(SnappedBefore)
                    /\ IF Horizontal(call.before.currentDir)
                       THEN call.after.x = SnapCentre(call.before.x)
                       ELSE call.after.y = SnapCentre(call.before.y)
              /\ ~ProbesClear(SnappedBefore, Requested) =>
                    PositionOf(call.after) \in TravelFrom(PositionOf(call.before))
        /\ SameAxisRequest =>
              PositionOf(call.after) \in TravelFrom(PositionOf(call.before))

\* A turn onto the other axis is granted from a position off the tile centre
\* in the level-1 maze, and the off-axis coordinate moves to the centre.
C21_Witness ==
    /\ Stepped
    /\ call.w = wallFn(Level1Maze, Level1Maze.tunnelRow, CanvasWidth)
    /\ PerpendicularRequest
    /\ call.after.currentDir = Requested
    /\ SnappedBefore # PositionOf(call.before)
    /\ PositionOf(call.after) \notin TravelFrom(PositionOf(call.before))

(***************************************************************************)
(* The step functions with no elapsed time                                 *)
(***************************************************************************)
GhostStepped == call.fn = "updateGhost" /\ call.result # << >>

\* The ghost of the call is exactly on a tile centre along its direction.
OnCentreAlongDir ==
    LET v == IF Horizontal(call.ghost.dir) THEN call.ghost.x ELSE call.ghost.y
    IN  \E k \in 0..31 : v = Center(k)

LeastX == IF "xMin" \in DOMAIN call.bounds THEN call.bounds.xMin ELSE PACMAN_RADIUS

GreatestX ==
    IF "xMax" \in DOMAIN call.bounds THEN call.bounds.xMax
    ELSE call.bounds.width - PACMAN_RADIUS

\* C23: after every updatePlayer step y lies in [R, height - R] and x in
\* [xMin, xMax], where xMin and xMax are R and width - R unless the caller
\* overrides them; without an override x is never outside [R, width - R],
\* from any starting position and for any dt.
C23_ClampedToBounds ==
    Stepped =>
        /\ call.after.y >= PACMAN_RADIUS
        /\ call.after.y <= call.bounds.height - PACMAN_RADIUS
        /\ call.after.x >= LeastX
        /\ call.after.x <= GreatestX
        /\ DOMAIN call.bounds = {"width", "height"} =>
              /\ call.after.x >= PACMAN_RADIUS
              /\ call.after.x <= call.bounds.width - PACMAN_RADIUS

\* A player that started beyond the right edge and travelled on to the right
\* is held at width - R.
C23_Witness ==
    /\ Stepped
    /\ DOMAIN call.bounds = {"width", "height"}
    /\ call.before.x > call.bounds.width - PACMAN_RADIUS
    /\ call.after.currentDir = "right"
    /\ call.dt > 0
    /\ call.after.x = call.bounds.width - PACMAN_RADIUS

(***************************************************************************)
(* wrapTunnels, eatDots, getTile and the passability tests on their own    *)
(***************************************************************************)
Wrapped == call.fn = "wrapTunnels" /\ call.result # << >>

\* The row of the tunnel call's player: the tile rows are TILE high from 0.
WrapRow == CHOOSE row \in -2..32 :
              row * TILE <= call.player.y /\ call.player.y < (row + 1) * TILE

\* C24: on the tunnel row wrapTunnels replaces x < 0 by canvasWidth -
\* PACMAN_RADIUS and x >= canvasWidth by PACMAN_RADIUS and leaves x inside
\* [0, canvasWidth) alone; on any other row the player is returned as it is;
\* every field other than x is kept in all cases.
C24_TunnelWrap ==
    Wrapped =>
        /\ \A f \in DOMAIN call.player \ {"x"} : call.result[1][f] = call.player[f]
        /\ DOMAIN call.result[1] = DOMAIN call.player
        /\ call.result[1].x =
             IF WrapRow # call.tunnelRow THEN call.player.x
             ELSE IF call.player.x < 0 THEN call.canvasWidth - PACMAN_RADIUS
             ELSE IF call.player.x >= call.canvasWidth THEN PACMAN_RADIUS
             ELSE call.player.x

\* A player heading left two pixels beyond the left edge on the tunnel row
\* comes back at the right edge.
C24_Witness ==
    /\ Wrapped
    /\ WrapRow = call.tunnelRow
    /\ call.player.x = Px(-2)
    /\ call.player.currentDir = "left"
    /\ call.result[1].x = call.canvasWidth - PACMAN_RADIUS
    /\ call.result[1].currentDir = "left"

Eaten == call.fn = "eatDots" /\ call.result # << >>

\* The dot lies farther than eatRadius from the player of the eatDots call.
BeyondReach(dot) ==
    DistSq(dot.x, dot.y, call.playerX, call.playerY) > call.eatRadius * call.eatRadius

\* The places in the dots of the call of the dots beyond reach, ascending.
KeptPlaces == {i \in 1..Len(call.dots) : BeyondReach(call.dots[i])}

\* C25: eatDots returns, in their order and with every field as it was,
\* exactly the dots whose squared distance to (px, py) is greater than r^2,
\* so that a dot at distance exactly r is removed.
C25_EatDots ==
    Eaten =>
        /\ Len(call.result[1]) = Cardinality(KeptPlaces)
        /\ \A k \in 1..Len(call.result[1]) :
              \E i \in KeptPlaces :
                 /\ Cardinality({j \in KeptPlaces : j <= i}) = k
                 /\ call.result[1][k] = call.dots[i]

\* Of three dots the middle one, a pellet at exactly eatRadius, is removed
\* and the two others stay in their order.
C25_Witness ==
    /\ Eaten
    /\ Len(call.dots) = 3
    /\ DistSq(call.dots[2].x, call.dots[2].y, call.playerX, call.playerY)
          = call.eatRadius * call.eatRadius
    /\ call.eatRadius > 0
    /\ call.dots[2].isPellet
    /\ call.dots[1] # call.dots[3]
    /\ call.result[1] = <<call.dots[1], call.dots[3]>>

TileRead == call.fn = "getTile" /\ call.result # << >>

\* The rows of characters of the layout of the getTile call.
LayoutRows == LayoutOf(call.layout).tiles

\* The tile a layout character stands for.
TileOfChar(char) ==
    IF char = "#" THEN "wall"
    ELSE IF char = "." THEN "dot"
    ELSE IF char = "o" THEN "pellet"
    ELSE IF char = "-" THEN "door"
    ELSE "floor"

OutsideGrid ==
    \/ call.col < 0 \/ call.col >= 28
    \/ call.row < 0 \/ call.row >= Len(LayoutRows)

\* C26: getTile returns wall for every (col, row) outside the grid and, inside
\* it, the tile parsed from the layout character, a cell beyond the end of a
\* row shorter than the grid width reading as floor.
C26_GetTile ==
    TileRead =>
        call.result[1] =
          IF OutsideGrid THEN "wall"
          ELSE IF call.col + 1 > Len(LayoutRows[call.row + 1]) THEN "floor"
          ELSE TileOfChar(LayoutRows[call.row + 1][call.col + 1])

\* A cell inside the grid beyond the end of a short row reads as floor.
C26_Witness ==
    /\ TileRead
    /\ ~OutsideGrid
    /\ call.col + 1 > Len(LayoutRows[call.row + 1])
    /\ call.result[1] = "floor"

WallTested == call.fn = "isWallAt" /\ call.result # << >>

\* The tile of level 1 under the pixel of the isWallAt call.
TestedTile == TileAt(call.x, call.y)

\* C27: isWallAt reports a pixel as blocking the player exactly when its tile
\* is wall or door; ghostIsWallAt reports a wall tile as blocking in every
\* mode and a door tile exactly in scatter, chase and frightened; floor, dot
\* and pellet tiles block nobody.
C27_Passability ==
    WallTested =>
        /\ call.result[1] <=> TestedTile \in {"wall", "door"}
        /\ call.result[2] <=>
              \/ TestedTile = "wall"
              \/ TestedTile = "door" /\ call.mode \in {"scatter", "chase", "frightened"}
        /\ TestedTile \in {"floor", "dot", "pellet"} =>
              ~call.result[1] /\ ~call.result[2]

\* The door blocks the player and lets an eaten ghost through.
C27_Witness ==
    /\ WallTested
    /\ TestedTile = "door"
    /\ call.mode = "eaten"
    /\ call.result = <<TRUE, FALSE>>

(***************************************************************************)
(* The global phase                                                        *)
(***************************************************************************)
\* The last tick flipped the global phase.
Flipped == last.branch = "play" /\ last.flipped

\* C28 as stated: the phase alternates between scatter and chase, a scatter
\* phase ends when it has lasted 7 seconds of play and a chase phase when it
\* has lasted 20 seconds.
C28_SevenAndTwentySeconds ==
    /\ Flipped => isChasing # prev.isChasing
    /\ (Flipped /\ prev.isChasing) =>
          /\ prev.modeTimer < Sec100(2000)
          /\ prev.modeTimer + last.dt >= Sec100(2000)
    /\ (Flipped /\ ~prev.isChasing) =>
          /\ prev.modeTimer < Sec100(700)
          /\ prev.modeTimer + last.dt >= Sec100(700)
    /\ (last.branch = "play" /\ ~last.flipped) =>
          prev.modeTimer + last.dt < (IF prev.isChasing THEN Sec100(2000) ELSE Sec100(700))

(***************************************************************************)
(* The fruit                                                               *)
(***************************************************************************)
\* The collectibles removed so far in this level.
DotsEatenThisLevel == initialDotCount - Len(dots)

\* C29: within a level at most two fruits are spawned (fruitSpawnCount never
\* exceeds 2 and is 0 again after a level transition), at most one fruit
\* exists at a time, the first is spawned only once floor(N / 3) collectibles
\* of the level are eaten and the second only once floor(2N / 3) are, N being
\* the level's initial count.
C29_FruitSpawns ==
    /\ fruitSpawnCount \in 0..2
    /\ Len(fruit) <= 1
    /\ fruitSpawnCount >= 1 => DotsEatenThisLevel >= initialDotCount \div 3
    /\ fruitSpawnCount = 2 => DotsEatenThisLevel >= (2 * initialDotCount) \div 3
    /\ fruitSpawnCount = 0 => fruit = << >>
    /\ fruitSpawnCount # prev.fruitSpawnCount =>
          \/ /\ fruitSpawnCount = prev.fruitSpawnCount + 1
             /\ prev.fruit = << >>
             /\ level = prev.level
          \/ /\ fruitSpawnCount = 0
             /\ level = prev.level + 1
    /\ level # prev.level => fruitSpawnCount = 0 /\ fruit = << >>

\* The second fruit of a level has just been spawned, the first being gone.
C29_Witness ==
    /\ prev.fruitSpawnCount = 1
    /\ fruitSpawnCount = 2
    /\ DotsEatenThisLevel >= (2 * initialDotCount) \div 3
    /\ prev.initialDotCount - Len(prev.dots) < (2 * initialDotCount) \div 3

(***************************************************************************)
(* The reversal at a phase flip                                            *)
(***************************************************************************)
\* Ghost i as the ghost step of the last tick must have found it: turned
\* round if the tick flipped the phase and the ghost was roaming, and
\* otherwise as the frighten override left it.
TurnedAtFlip(i) ==
    IF last.flipped /\ last.overridden[i].mode \in {"scatter", "chase"}
    THEN [last.overridden[i] EXCEPT !.dir = oppositeDir(last.overridden[i].dir)]
    ELSE last.overridden[i]

\* C30: on the tick that flips the global phase every ghost in scatter or
\* chase has its direction replaced by the opposite one before the ghost
\* step, the ghosts in pen, exiting, frightened and eaten enter the step as
\* they were, and on a tick without a flip every ghost does: the ghosts after
\* the step are updateGhost of exactly those ghosts.
C30_FlipReversesRoaming ==
    last.branch = "play" =>
        \A i \in GhostIds :
           \E rnd \in RandomDraw :
              last.stepped[i] =
                wrapGhostTunnel(updateGhost(TurnedAtFlip(i), player.x, player.y,
                                            player.facing, last.dt, Level1Maze,
                                            isChasing, rnd),
                                Level1Maze.tunnelRow, CanvasWidth)

\* A flip finds one ghost roaming and another not; after the step the first
\* heads the opposite way and the second the way it headed.
C30_Witness ==
    /\ Flipped
    /\ \E i \in GhostIds :
          /\ last.overridden[i].mode \in {"scatter", "chase"}
          /\ last.stepped[i].dir = oppositeDir(last.overridden[i].dir)
    /\ \E j \in GhostIds :
          /\ last.overridden[j].mode \notin {"scatter", "chase"}
          /\ last.stepped[j].dir = last.overridden[j].dir

(***************************************************************************)
(* The order of the steps of one tick                                      *)
(***************************************************************************)
\* Ghost i is within the collision threshold of the player after the ghost
\* step of the last tick.
InContactAfterStep(i) ==
    PlayerDistSq(player, last.stepped[i]) < COLLISION_DIST * COLLISION_DIST

\* Ghost i was in scatter or chase when the last tick began.
RoamingAtStart(i) == last.trail[i][1] \in Roaming

\* C31: the pickup of a power pellet is seen by the ghost step and by the
\* collision scan of the same tick.  On a tick whose pickup removed a power
\* pellet, a ghost that began the tick in scatter or chase and is within the
\* collision threshold after the ghost step went through that step frightened,
\* is eaten by the scan (mode eaten, timer 0, 200 points) and is no cause of
\* death: the player is dying afterwards only if another ghost, lethal after
\* the step, is in contact.
C31_PelletSeenBySameTick ==
    (last.branch = "play" /\ last.pellet) =>
       \A i \in GhostIds :
          (RoamingAtStart(i) /\ InContactAfterStep(i)) =>
             /\ last.overridden[i].mode = "frightened"
             /\ last.stepped[i].mode = "frightened"
             /\ ghosts[i].mode = "eaten"
             /\ ghosts[i].frightenedTimer = 0
             /\ score >= prev.score + 200
             /\ player.dying =>
                  \E j \in GhostIds \ {i} : /\ last.stepped[j].mode \in Roaming
                                            /\ InContactAfterStep(j)

\* The player took a power pellet with a chasing ghost upon it and ate the
\* ghost on the same tick.
C31_Witness ==
    /\ last.branch = "play"
    /\ last.pellet
    /\ \E i \in GhostIds : /\ RoamingAtStart(i)
                           /\ InContactAfterStep(i)
                           /\ ghosts[i].mode = "eaten"
    /\ ~player.dying

(***************************************************************************)
(* The turn taken on arrival at a waypoint                                 *)
(***************************************************************************)
\* The call was the step of an exiting ghost that arrived at the pen exit and
\* took the mode of the phase there.
ArrivedAtExit ==
    /\ GhostStepped
    /\ call.ghost.mode = "exiting"
    /\ call.result[1].mode \in Roaming

\* The direction pickDirection returns at the pen exit for the ghost of the
\* call, steered by the target of the given mode.
ExitTurnFor(targetMode) ==
    LET at == [call.ghost EXCEPT !.x = PEN_EXIT_X, !.y = PEN_EXIT_Y]
        t == TargetOf(at, targetMode, call.playerX, call.playerY, call.playerFacing)
    IN  pickDirection(PEN_EXIT_X, PEN_EXIT_Y, call.ghost.dir, t.x, t.y,
                      call.result[1].mode, Level1Maze, call.rnd)

\* C32 as stated, for the arrival at the pen exit: the direction chosen on the
\* crossing on which an exiting ghost becomes scatter or chase is the one
\* pickDirection returns for the target of the new mode.
C32_TurnUsesNewModeTarget ==
    ArrivedAtExit => call.result[1].dir = ExitTurnFor(call.result[1].mode)

\* What updateGhost does: the direction chosen on that crossing is the one
\* pickDirection returns for the pen-exit target, the target of the mode the
\* ghost had when the step began, with the passability of the new mode.
C32_TurnUsesOldModeTarget ==
    ArrivedAtExit => call.result[1].dir = ExitTurnFor("exiting")

(***************************************************************************)
(* Crossing detection                                                      *)
(***************************************************************************)
Walking == call.fn = "walk"

\* C33 as stated: a tile centre triggers the direction choice on one tick
\* only; a ghost does not choose a direction at the centre at which it chose
\* on the tick before.
C33_OneChoicePerCentre ==
    (Walking /\ call.chose # << >>) => call.chose # call.earlier

(***************************************************************************)
(* The way back to the pen and out of it                                   *)
(***************************************************************************)
\* The ghost of the walk has just arrived at the pen entrance: it is in the
\* pen with the new wait of 1 s.
BackInPen ==
    /\ call.ghost.mode = "pen"
    /\ call.ghost.penTimer = Sec100(100)
    /\ call.chose = <<PEN_ENTRANCE_X, PEN_ENTRANCE_Y>>

\* The ghost of the walk has just arrived at the pen exit: it is in scatter
\* or chase.
OutOfPen ==
    /\ call.ghost.mode \in Roaming
    /\ call.chose = <<PEN_EXIT_X, PEN_EXIT_Y>>

C39_PenGhostGetsOut ==
    /\ (Walking /\ call.ghost.mode = "pen") ~> (call.ghost.mode = "exiting")
    /\ (Walking /\ call.ghost.mode = "exiting") ~> OutOfPen

\* A ghost that was eaten and came back to the pen has left it again.
C39_Witness ==
    /\ Walking
    /\ call.began = "eaten"
    /\ OutOfPen

(***************************************************************************)
(* The length of a ghost's step                                            *)
(***************************************************************************)
\* The length of the path from (x1, y1) to (x2, y2) along one axis.
PathLength(x1, y1, x2, y2) == Abs(x2 - x1) + Abs(y2 - y1)

\* The centre at which the step of the call turns, << >> if there is none.
CentreOfCall == crossingOf(call.ghost, call.dt)

\* The part of the step's distance left at that centre.
LeftoverOfCall ==
    GHOST_SPEED * call.dt
      - PathLength(call.ghost.x, call.ghost.y, CentreOfCall[1], CentreOfCall[2])

\* C34: a step of a ghost that is not in the pen travels GHOST_SPEED * dt.
\* Without a centre in its way the ghost advances by that distance in its
\* direction.  Otherwise it goes to the centre and from there the leftover in
\* the direction of the result; the leftover is not negative, is less than a
\* tile, so that no second centre is passed, and both legs add up to
\* GHOST_SPEED * dt.
C34_StepLengthIsSpeedTimesDt ==
    (GhostStepped /\ call.ghost.mode # "pen") =>
        LET to == call.result[1]
        IN  IF CentreOfCall = << >>
            THEN /\ [x |-> to.x, y |-> to.y]
                       = Advance(call.ghost.x, call.ghost.y, call.ghost.dir,
                                 GHOST_SPEED * call.dt)
                 /\ to.dir = call.ghost.dir
            ELSE /\ LeftoverOfCall >= 0
                 /\ LeftoverOfCall < TILE
                 /\ [x |-> to.x, y |-> to.y]
                       = Advance(CentreOfCall[1], CentreOfCall[2], to.dir, LeftoverOfCall)
                 /\ PathLength(call.ghost.x, call.ghost.y, CentreOfCall[1], CentreOfCall[2])
                       + PathLength(CentreOfCall[1], CentreOfCall[2], to.x, to.y)
                       = GHOST_SPEED * call.dt

\* A ghost turned a corner: some of the distance before and some after it.
C34_Witness ==
    /\ GhostStepped
    /\ call.ghost.mode = "scatter"
    /\ CentreOfCall # << >>
    /\ LeftoverOfCall > 0
    /\ LeftoverOfCall < GHOST_SPEED * call.dt
    /\ Horizontal(call.result[1].dir) # Horizontal(call.ghost.dir)

\* A short step that stays before the next centre.
C34_PlainAdvance ==
    /\ GhostStepped
    /\ call.ghost.mode # "pen"
    /\ call.dt > 0
    /\ CentreOfCall = << >>

(***************************************************************************)
(* Ghosts at the ends of the tunnel row                                    *)
(***************************************************************************)
OnTunnelRow == FloorDiv(call.ghost.y, TILE) = Level1Maze.tunnelRow

\* An eaten ghost in the first column of the tunnel row, travelling to the
\* left edge, and one in the last column travelling to the right edge.
TowardLeftEdge ==
    /\ Walking
    /\ call.ghost.mode = "eaten"
    /\ OnTunnelRow
    /\ call.ghost.dir = "left"
    /\ call.ghost.x < Center(1)

TowardRightEdge ==
    /\ Walking
    /\ call.ghost.mode = "eaten"
    /\ OnTunnelRow
    /\ call.ghost.dir = "right"
    /\ call.ghost.x > Center(Level1Maze.cols - 2)

\* C35 as stated: in the edge column of the tunnel row nothing stands in the
\* way of a ghost travelling to the edge.  Its next step leaves it travelling
\* the same way, further on towards the edge or, once across it, at the
\* opposite edge: at canvasWidth - GHOST_RADIUS from the left edge and at
\* GHOST_RADIUS from the right one.
C35_GhostWrapsAtEdge ==
    [][/\ TowardLeftEdge =>
             /\ call'.ghost.dir = "left"
             /\ \/ call'.ghost.x < call.ghost.x
                \/ call'.ghost.x = CanvasWidth - GHOST_RADIUS
       /\ TowardRightEdge =>
             /\ call'.ghost.dir = "right"
             /\ \/ call'.ghost.x > call.ghost.x
                \/ call'.ghost.x = GHOST_RADIUS]_vars

\* What the ghost does: in the edge column it turns back and is never
\* outside the canvas.
C35_GhostTurnsBackAtEdge ==
    Walking => /\ call.ghost.x >= Center(0)
               /\ call.ghost.x <= Center(Level1Maze.cols - 1)

(***************************************************************************)
(* The frightened timer and the mode                                       *)
(***************************************************************************)
\* C36: after every tick a ghost has frightenedTimer > 0 exactly when its
\* mode is frightened: the timer is 0 in pen, exiting, scatter, chase and
\* eaten, and a frightened ghost has a timer above 0.
C36_TimerIffFrightened ==
    \A i \in DOMAIN ghosts :
       ghosts[i].frightenedTimer > 0 <=> ghosts[i].mode = "frightened"

\* A play tick ended with an eaten ghost and a ghost whose fright is running.
C36_Witness ==
    /\ last.branch = "play"
    /\ \E i, j \in DOMAIN ghosts :
          /\ ghosts[i].mode = "eaten"
          /\ ghosts[i].frightenedTimer = 0
          /\ prev.ghosts[i].mode = "frightened"
          /\ ghosts[j].mode = "frightened"
          /\ ghosts[j].frightenedTimer > 0
          /\ ghosts[j].frightenedTimer < FRIGHTENED_DURATION

\* A fright ran out on a play tick.
C36_FrightRanOut ==
    /\ last.branch = "play"
    /\ \E i \in DOMAIN ghosts :
          /\ prev.ghosts[i].mode = "frightened"
          /\ ghosts[i].mode \in Roaming
          /\ ghosts[i].frightenedTimer = 0

(***************************************************************************)
(* The three pauses of a round                                             *)
(***************************************************************************)
\* C40: of levelComplete, player.dying and respawnTimer > 0 at most one
\* holds.  The tick that clears the level steps no ghost and scans no
\* collision, so it leaves the player not dying; gameOver is set only by a
\* tick that found the player dying.
C40_OnePauseAtATime ==
    /\ ~(levelComplete /\ player.dying)
    /\ ~(levelComplete /\ respawnTimer > 0)
    /\ ~(player.dying /\ respawnTimer > 0)
    /\ last.branch = "cleared" =>
          /\ levelComplete
          /\ ~player.dying
          /\ last.stepped = << >>
          /\ ghosts = prev.ghosts \/ last.pellet
    /\ (gameOver /\ ~prev.gameOver) => prev.player.dying

\* A tick cleared the level: levelComplete is set, the player is not dying
\* and no freeze runs.
C40_Witness ==
    /\ last.branch = "cleared"
    /\ levelComplete
    /\ ~player.dying
    /\ respawnTimer = 0

\* Each pause and the end of the game are reached.
C40_Respawning == respawnTimer > 0 /\ ~player.dying /\ ~levelComplete

C40_GameOverFromDying == gameOver /\ prev.player.dying /\ ~prev.gameOver

(***************************************************************************)
(* The order of the collision scan                                         *)
(***************************************************************************)
\* Ghost i was frightened and within the threshold after the ghost step.
FrightenedContact(i) ==
    /\ last.stepped[i].mode = "frightened"
    /\ InContactAfterStep(i)

\* The first ghost of the array in lethal contact, or one more than the
\* number of ghosts if there is none.
FirstLethal ==
    IF \E i \in GhostIds : LethalContact(i)
    THEN CHOOSE i \in GhostIds :
           LethalContact(i) /\ \A j \in GhostIds : j < i => ~LethalContact(j)
    ELSE Len(ghosts) + 1

\* The ghosts the scan eats: frightened, in contact, before the first lethal one.
EatenBeforeStop == {i \in GhostIds : FrightenedContact(i) /\ i < FirstLethal}

\* C37: the collision scan goes through the ghosts in the order of the array
\* and stops at the first one in lethal contact.  A frightened ghost in
\* contact before it is eaten (mode eaten, timer 0) and scored with 200; every
\* other ghost, a frightened one in contact after it included, is left as the
\* ghost step left it.  The player is dying exactly when a ghost is in lethal
\* contact.
C37_ScanStopsAtFirstLethal ==
    last.branch = "play" =>
       /\ \A i \in GhostIds :
             ghosts[i] = IF i \in EatenBeforeStop
                         THEN [last.stepped[i] EXCEPT !.mode = "eaten",
                                                      !.frightenedTimer = 0]
                         ELSE last.stepped[i]
       /\ player.dying <=> FirstLethal <= Len(ghosts)
       /\ (prev.fruit = << >> /\ fruit = << >>) =>
             score = prev.score + (Len(prev.dots) - Len(dots))
                       + 200 * Cardinality(EatenBeforeStop)

\* A frightened ghost in contact came before the lethal one and was eaten.
C37_Witness ==
    /\ last.branch = "play"
    /\ player.dying
    /\ \E i, j \in GhostIds :
          /\ i < j
          /\ FrightenedContact(i)
          /\ j = FirstLethal
          /\ ghosts[i].mode = "eaten"
          /\ score >= prev.score + 200

\* A frightened ghost in contact came after the lethal one and was left alone.
C37_LaterGhostLeftAlone ==
    /\ last.branch = "play"
    /\ player.dying
    /\ \E i, j \in GhostIds :
          /\ i < j
          /\ i = FirstLethal
          /\ FrightenedContact(j)
          /\ ghosts[j].mode = "frightened"
          /\ score < prev.score + 200
====
